---- MODULE Spec2Model ----
(***************************************************************************)
(* pytoyoda: the token lifecycle controller and request dispatcher of      *)
(* src/pytoyoda/controller.py as a state machine.                          *)
(*                                                                         *)
(* Controller objects live in slots Ctrls; calls (login, request_raw) run  *)
(* as cooperative tasks.  A task runs atomically from one await to the     *)
(* next: every HTTP call of the source is an await, so each action below   *)
(* is "receive the awaited response, run to the next await or to the end". *)
(* The identity provider and the API are unconstrained: every response is  *)
(* drawn with \E from the sets below.                                      *)
(***************************************************************************)
EXTENDS Integers, Sequences, FiniteSets, TLC

\* ---------------------------------------------------------------- bounds
NumCtrl == 2
NumTasks == 2
MaxTime == 1
MaxUpdates == 2
MaxMonths == 3
MaxDays == 3
NumTokens == 2

\* ------------------------------------------------------ program constants
MaxRounds == 10
HTTP_OK == 200
HTTP_ACCEPTED == 202
HTTP_FOUND == 302
HTTP_UNAUTHORIZED == 401

Ctrls == 1 .. NumCtrl
Tasks == 1 .. NumTasks
Users == {"alice", "bob"}
NoUser == ""
Passwords == [alice |-> "pw-alice", bob |-> "pw-bob"]

None == [none |-> TRUE]
EmptyDict == [k \in {} |-> 0]

valid_methods == {"GET", "POST", "PUT", "DELETE"}
Methods == {"GET", "DELETE", "PATCH"}

\* ------------------------------------------------- the provider's replies
AccessTokens == 1 .. NumTokens
RefreshTokenValues == {"", "rt"}
ExpiresIn == {0, 1}
IdTokens == {"not-a-jwt", "jwt{}", "jwt{uuid}"}

Response(s, b) == [status |-> s, body |-> b]
NoResponse == [at |-> "none", status |-> 0, body |-> EmptyDict]

NameCb(out) == [type |-> "NameCallback", output |-> out, input |-> ""]
PasswordCb == [type |-> "PasswordCallback", output |-> "Password", input |-> ""]
TextCb(out) == [type |-> "TextOutputCallback", output |-> out, input |-> ""]

\* the authentication endpoint: its JSON bodies under 200, and a refusal that
\* carries a token identifier all the same
AuthBodies ==
    { [callbacks |-> <<NameCb("User Name")>>],
      [callbacks |-> <<PasswordCb>>],
      [callbacks |-> <<TextCb("User Not Found")>>],
      [callbacks |-> <<NameCb("User Name"), TextCb("User Not Found")>>],
      [tokenId |-> "sid"],
      [tokenId |-> "sid", callbacks |-> <<TextCb("User Not Found")>>] }
AuthResponses ==
    {Response(HTTP_OK, b) : b \in AuthBodies}
        \cup {Response(HTTP_UNAUTHORIZED, [tokenId |-> "sid"])}

\* the authorization endpoint: the body is the Location header, absent or a
\* query string given as its <<key, value>> pairs
NoHeader == [absent |-> TRUE]
Locations ==
    { NoHeader,
      [query |-> <<>>],
      [query |-> << <<"code", "">> >>],
      [query |-> << <<"code", "c1">> >>],
      [query |-> << <<"state", "x">>, <<"code", "c2">> >>] }
AuthorizeResponses ==
    {Response(HTTP_FOUND, l) : l \in Locations}
        \cup {Response(s, [query |-> << <<"code", "c1">> >>]) :
                s \in {HTTP_OK, HTTP_UNAUTHORIZED}}

\* the token endpoint: the complete JSON bodies, a complete one with each set
\* of fields removed (only the set of missing fields matters then), and a
\* refusal that carries a complete body all the same
TokenBody(a, i, r, e) ==
    [access_token |-> a, id_token |-> i, refresh_token |-> r, expires_in |-> e]
Without(body, D) == [f \in DOMAIN body \ D |-> body[f]]
CompleteBodies ==
    { TokenBody(a, i, r, e) :
        a \in AccessTokens, i \in IdTokens, r \in RefreshTokenValues, e \in ExpiresIn }
TokenBodies ==
    CompleteBodies \cup
    { Without(TokenBody(1, "jwt{uuid}", "rt", 1), D) :
        D \in SUBSET {"access_token", "id_token", "refresh_token", "expires_in"} }
TokenResponses ==
    {Response(HTTP_OK, b) : b \in TokenBodies}
        \cup {Response(HTTP_UNAUTHORIZED, TokenBody(1, "jwt{uuid}", "rt", 1))}

\* the API
ApiResponses == {Response(s, EmptyDict) : s \in {HTTP_OK, HTTP_ACCEPTED, HTTP_UNAUTHORIZED}}

\* ---------------------------------------------------------- pure helpers
TokenInfo(a, r, u, e) ==
    [access_token |-> a, refresh_token |-> r, uuid |-> u, expiration |-> e]

IsTokenValid(ti, t) == ti # None /\ ti.expiration > t

HasRefreshToken(ti) == ti # None /\ ti.refresh_token # ""

required_fields == <<"access_token", "id_token", "refresh_token", "expires_in">>

MissingFields(response_data) ==
    SelectSeq(required_fields, LAMBDA f : f \notin DOMAIN response_data)

\* jwt.decode(...)["uuid"] without signature verification: a malformed token
\* raises DecodeError, a payload without the claim raises KeyError
JwtDecode(tok) ==
    CASE tok = "not-a-jwt" -> [exc |-> "DecodeError"]
      [] tok = "jwt{}"     -> [exc |-> "none", payload |-> EmptyDict]
      [] OTHER             -> [exc |-> "none", payload |-> [uuid |-> "guid"]]

\* (mutant) the expiry counted from time 0 instead of from now
ExpirationFromZero(t, expires_in) == expires_in

Expiration(t, expires_in) == t + expires_in

\* (mutant) _update_tokens without its check: the first missing key raises
BuildTokenInfoUnchecked(response_data, t) ==
    IF \E f \in {"access_token", "id_token", "refresh_token", "expires_in"} :
           f \notin DOMAIN response_data
    THEN [exc |-> "KeyError"]
    ELSE [exc |-> "none",
          info |-> TokenInfo(response_data.access_token, response_data.refresh_token,
                             "guid", t + response_data.expires_in)]

\* _update_tokens up to the assignment: the exception raised, or the record built
BuildTokenInfo(response_data, t) ==
    IF MissingFields(response_data) # <<>> THEN [exc |-> "LoginError"]
    ELSE LET jwt == JwtDecode(response_data.id_token) IN
         IF jwt.exc # "none" THEN [exc |-> jwt.exc]
         ELSE IF "uuid" \notin DOMAIN jwt.payload THEN [exc |-> "KeyError"]
         ELSE [exc |-> "none",
               info |-> TokenInfo(response_data.access_token,
                                  response_data.refresh_token,
                                  jwt.payload.uuid,
                                  Expiration(t, response_data.expires_in))]

\* the loop over data["callbacks"] at the head of a round
FillCallback(cb, user, pw) ==
    IF cb.type = "NameCallback" /\ cb.output = "User Name" THEN [cb EXCEPT !.input = user]
    ELSE IF cb.type = "PasswordCallback" THEN [cb EXCEPT !.input = pw]
    ELSE cb

IsUserNotFound(cb) == cb.type = "TextOutputCallback" /\ cb.output = "User Not Found"

HasUserNotFound(d) ==
    /\ "callbacks" \in DOMAIN d
    /\ \E i \in 1 .. Len(d.callbacks) : IsUserNotFound(d.callbacks[i])

FillCallbacks(d, user, pw) ==
    IF "callbacks" \in DOMAIN d
    THEN [d EXCEPT !.callbacks = [i \in 1 .. Len(@) |-> FillCallback(@[i], user, pw)]]
    ELSE d

\* parse_qs(...)["code"]: the values of the key in order, blank values dropped
ValuesOf(query, key) ==
    LET keep(p) == p[1] = key /\ p[2] # ""
        vals == SelectSeq(query, keep)
    IN  [i \in 1 .. Len(vals) |-> vals[i][2]]

\* _perform_authorization after the status check
ParseCode(location) ==
    IF location = NoHeader THEN [exc |-> "TypeError"]
    ELSE IF ValuesOf(location.query, "code") = <<>> THEN [exc |-> "KeyError"]
    ELSE [exc |-> "none", code |-> ValuesOf(location.query, "code")]

\* (mutant) a cache that keeps one entry only
CachePutAlone(cache, user, ti) == [u \in {user} |-> ti]

CachePut(cache, user, ti) ==
    [u \in DOMAIN cache \cup {user} |-> IF u = user THEN ti ELSE cache[u]]

\* ------------------------------------------------------------------ state
VARIABLES
    now,          \* datetime.now(timezone.utc)
    username,     \* Controller._username, NoUser while the slot is unused
    password,     \* Controller._password
    token_info,   \* Controller._token_info
    TOKEN_CACHE,  \* Controller._TOKEN_CACHE
    pc,           \* the await a task is suspended at
    inst,         \* the controller a task's call runs on (self)
    method,       \* "login" for login(), else request_raw's method
    round,        \* rounds of _perform_authentication started
    data,         \* _perform_authentication's data, as posted
    auth_code,    \* the code _retrieve_tokens posts
    headers,      \* request_raw's request_headers in flight
    outcome,      \* how the last call ended: "ok" or the exception
    obs,          \* per call: what it was given and what it has done so far
    lastStored,   \* per account: the record _update_tokens stored last
    vehicle,      \* the Vehicle: its endpoints, their data, its update() call
    trips,        \* the trip summaries: the response and what is made of it
    dash,         \* the dashboard: the endpoint data and what is read from it
    lock,         \* a door's section of the status data and what is read from it
    charging,     \* the raw next charging event, the clock, and the event
    web           \* the demo web app: its session and its last response

vars == <<now, username, password, token_info, TOKEN_CACHE, pc, inst, method,
          round, data, auth_code, headers, outcome, obs, lastStored,
          vehicle, trips, dash, lock, charging, web>>

\* the record of a call: the credential state it started in, the requests it
\* has sent to each endpoint, the records it has stored, the last response it
\* received; in the handshake, the rounds whose responses held "User Not
\* Found" (the first) and a token identifier, and its place in the scripted
\* exchange
NoObs ==
    [start |-> "none", hasRefresh |-> FALSE,
     refresh |-> 0, refreshExc |-> "none", authenticate |-> 0, posts |-> 0,
     authorize |-> 0, token |-> 0, api |-> 0, stored |-> 0,
     userNotFoundAt |-> 0, tokenIdAt |-> 0, script |-> 0,
     last |-> NoResponse, returned |-> NoResponse]

\* no Vehicle constructed, no summary asked for, no dashboard read
NoVehicle ==
    [constructed |-> FALSE, capable |-> [t \in Tasks |-> FALSE],
     endpoint_data |-> EmptyDict, update |-> "none", before |-> EmptyDict,
     rounds |-> 0]
NoTrips == [call |-> "none"]
NoDash == [call |-> "none"]
NoLock == [call |-> "none"]
NoCharging == [call |-> "none"]
NoWeb == [call |-> "none"]

\* the controller before its construction, no call in progress
InitController ==
    /\ now = 0
    /\ username = [c \in Ctrls |-> NoUser]
    /\ password = [c \in Ctrls |-> ""]
    /\ token_info = [c \in Ctrls |-> None]
    /\ TOKEN_CACHE = EmptyDict
    /\ pc = [t \in Tasks |-> "idle"]
    /\ inst = [t \in Tasks |-> 1]
    /\ method = [t \in Tasks |-> "login"]
    /\ round = [t \in Tasks |-> 0]
    /\ data = [t \in Tasks |-> EmptyDict]
    /\ auth_code = [t \in Tasks |-> <<>>]
    /\ headers = [t \in Tasks |-> None]
    /\ outcome = [t \in Tasks |-> "none"]
    /\ obs = [t \in Tasks |-> NoObs]
    /\ lastStored = EmptyDict

\* nothing but the controller is in use
Idle(others) ==
    /\ "vehicle" \in others => vehicle = NoVehicle
    /\ "trips" \in others => trips = NoTrips
    /\ "dash" \in others => dash = NoDash
    /\ "lock" \in others => lock = NoLock
    /\ "charging" \in others => charging = NoCharging
    /\ "web" \in others => web = NoWeb

Domains == {"vehicle", "trips", "dash", "lock", "charging", "web"}

Init ==
    /\ InitController
    /\ Idle(Domains)

\* the three credential states of the controller
CredState(ti, t) ==
    IF ti = None THEN "Unauthenticated"
    ELSE IF ti.expiration > t THEN "Valid" ELSE "Expired"

Keep == UNCHANGED <<token_info, TOKEN_CACHE, lastStored>>

\* (mutant) a cache entry is written once and then kept
StoreUnlessCached(c, ti) ==
    /\ token_info' = [token_info EXCEPT ![c] = ti]
    /\ TOKEN_CACHE' = IF username[c] \in DOMAIN TOKEN_CACHE THEN TOKEN_CACHE
                      ELSE CachePut(TOKEN_CACHE, username[c], ti)
    /\ lastStored' = [u \in DOMAIN lastStored \cup {username[c]} |->
                         IF u = username[c] THEN ti ELSE lastStored[u]]

\* the assignment and the cache update that end _update_tokens
Store(c, ti) ==
    /\ token_info' = [token_info EXCEPT ![c] = ti]
    /\ TOKEN_CACHE' = CachePut(TOKEN_CACHE, username[c], ti)
    /\ lastStored' = [u \in DOMAIN lastStored \cup {username[c]} |->
                         IF u = username[c] THEN ti ELSE lastStored[u]]

\* a call ends, with "ok" or an exception: its locals go out of scope
Finish(t, o, exc) ==
    /\ pc' = [pc EXCEPT ![t] = "done"]
    /\ outcome' = [outcome EXCEPT ![t] = exc]
    /\ round' = [round EXCEPT ![t] = 0]
    /\ data' = [data EXCEPT ![t] = EmptyDict]
    /\ auth_code' = [auth_code EXCEPT ![t] = <<>>]
    /\ headers' = [headers EXCEPT ![t] = None]
    /\ obs' = [obs EXCEPT ![t] = o]

\* a task suspends at an await
Await(t, o, at, r, d, code, h) ==
    /\ pc' = [pc EXCEPT ![t] = at]
    /\ round' = [round EXCEPT ![t] = r]
    /\ data' = [data EXCEPT ![t] = d]
    /\ auth_code' = [auth_code EXCEPT ![t] = code]
    /\ headers' = [headers EXCEPT ![t] = h]
    /\ obs' = [obs EXCEPT ![t] = o]
    /\ UNCHANGED outcome

\* the response a task resumes with, added to the record of its call
Got(o, at, resp) ==
    [o EXCEPT !.last = [at |-> at, status |-> resp.status, body |-> resp.body]]

\* _prepare_headers: the credential a request carries
PrepareHeaders(ti) ==
    IF ti = None THEN [authorization |-> 0, guid |-> "None"]
    ELSE [authorization |-> ti.access_token, guid |-> ti.uuid]

\* request_raw from _prepare_headers to the awaited client.request
SendRequest(t, o, ti) ==
    Await(t, [o EXCEPT !.api = @ + 1], "request_wait", 0, EmptyDict, <<>>,
          PrepareHeaders(ti))

\* _update_token has returned: login() ends, request_raw goes on
Resume(t, m, o, ti) ==
    IF m = "login" THEN Finish(t, o, "ok") ELSE SendRequest(t, o, ti)

\* _authenticate up to the first post of _perform_authentication: data = {}
Authenticate(t, o) ==
    Await(t, [o EXCEPT !.authenticate = @ + 1, !.posts = @ + 1],
          "authenticate_wait", 1, EmptyDict, <<>>, None)

\* _refresh_tokens up to its post
SendRefresh(t, o) ==
    Await(t, [o EXCEPT !.refresh = @ + 1], "refresh_wait", 0, EmptyDict, <<>>, None)

\* (mutant) _update_token that never tries the refresh token
UpdateTokenNoRefresh(t, c, m, o) ==
    IF IsTokenValid(token_info[c], now) THEN Resume(t, m, o, token_info[c])
    ELSE Authenticate(t, o)

\* _update_token: the decision between reuse, refresh and authentication
UpdateToken(t, c, m, o) ==
    IF IsTokenValid(token_info[c], now) THEN Resume(t, m, o, token_info[c])
    ELSE IF HasRefreshToken(token_info[c]) THEN SendRefresh(t, o)
    ELSE Authenticate(t, o)

\* (mutant) a handler that tries the refresh again
RefreshRaisedRetry(t, o, exc) ==
    IF exc = "LoginError"
    THEN SendRefresh(t, [o EXCEPT !.refreshExc = exc])
    ELSE Finish(t, [o EXCEPT !.refreshExc = exc], exc)

\* _update_token's handler around _refresh_tokens
RefreshRaised(t, o, exc) ==
    IF exc = "LoginError"
    THEN Authenticate(t, [o EXCEPT !.refreshExc = exc])
    ELSE Finish(t, [o EXCEPT !.refreshExc = exc], exc)

\* -------------------------------------------------------------- actions
Tick ==
    /\ now < MaxTime
    /\ now' = now + 1
    /\ UNCHANGED <<username, password, token_info, TOKEN_CACHE, pc, inst, method,
                   round, data, auth_code, headers, outcome, obs, lastStored,
                   vehicle, trips, dash,
                   lock, charging, web>>

\* Controller.__init__
Construct(c, u) ==
    /\ username[c] = NoUser
    /\ username' = [username EXCEPT ![c] = u]
    /\ password' = [password EXCEPT ![c] = Passwords[u]]
    /\ token_info' = [token_info EXCEPT ![c] =
                         IF u \in DOMAIN TOKEN_CACHE THEN TOKEN_CACHE[u] ELSE None]
    /\ UNCHANGED <<now, TOKEN_CACHE, pc, inst, method, round, data, auth_code,
                   headers, outcome, obs, lastStored, vehicle, trips, dash,
                   lock, charging, web>>

StartObs(c) ==
    [NoObs EXCEPT !.start = CredState(token_info[c], now),
                  !.hasRefresh = HasRefreshToken(token_info[c])]

\* login()
Login(t, c) ==
    /\ pc[t] \in {"idle", "done"}
    /\ username[c] # NoUser
    /\ inst' = [inst EXCEPT ![t] = c]
    /\ method' = [method EXCEPT ![t] = "login"]
    /\ IF ~IsTokenValid(token_info[c], now)
       THEN UpdateToken(t, c, "login", StartObs(c))
       ELSE Finish(t, StartObs(c), "ok")
    /\ Keep
    /\ UNCHANGED <<now, username, password, vehicle, trips, dash,
                   lock, charging, web>>

\* (mutant) request_raw that checks the token before the method
RequestCheckLate(t, c, m) ==
    /\ pc[t] \in {"idle", "done"}
    /\ username[c] # NoUser
    /\ inst' = [inst EXCEPT ![t] = c]
    /\ method' = [method EXCEPT ![t] = m]
    /\ IF ~IsTokenValid(token_info[c], now)
       THEN UpdateToken(t, c, m, StartObs(c))
       ELSE IF m \notin valid_methods
            THEN Finish(t, StartObs(c), "InternalError")
            ELSE SendRequest(t, StartObs(c), token_info[c])
    /\ Keep
    /\ UNCHANGED <<now, username, password, vehicle, trips, dash,
                   lock, charging, web>>

\* (mutant) request_raw without its token check
RequestUnchecked(t, c, m) ==
    /\ pc[t] \in {"idle", "done"}
    /\ username[c] # NoUser
    /\ inst' = [inst EXCEPT ![t] = c]
    /\ method' = [method EXCEPT ![t] = m]
    /\ IF m \notin valid_methods
       THEN Finish(t, StartObs(c), "InternalError")
       ELSE SendRequest(t, StartObs(c), token_info[c])
    /\ Keep
    /\ UNCHANGED <<now, username, password, vehicle, trips, dash,
                   lock, charging, web>>

\* request_raw up to its first await
Request(t, c, m) ==
    /\ pc[t] \in {"idle", "done"}
    /\ username[c] # NoUser
    /\ inst' = [inst EXCEPT ![t] = c]
    /\ method' = [method EXCEPT ![t] = m]
    /\ IF m \notin valid_methods
       THEN Finish(t, StartObs(c), "InternalError")
       ELSE IF ~IsTokenValid(token_info[c], now)
            THEN UpdateToken(t, c, m, StartObs(c))
            ELSE SendRequest(t, StartObs(c), token_info[c])
    /\ Keep
    /\ UNCHANGED <<now, username, password, vehicle, trips, dash,
                   lock, charging, web>>

\* (mutant) a refresh that forgets the credential the provider turned down
RefreshResponseForgetting(t, resp) ==
    /\ pc[t] = "refresh_wait"
    /\ LET built == BuildTokenInfo(resp.body, now)
           o == Got(obs[t], "refresh", resp)
       IN
       IF resp.status # HTTP_OK
       THEN /\ RefreshRaised(t, o, "LoginError")
            /\ token_info' = [token_info EXCEPT ![inst[t]] = None]
            /\ UNCHANGED <<TOKEN_CACHE, lastStored>>
       ELSE IF built.exc # "none"
       THEN RefreshRaised(t, o, built.exc) /\ Keep
       ELSE /\ Store(inst[t], built.info)
            /\ Resume(t, method[t],
                      [o EXCEPT !.stored = @ + 1, !.refreshExc = "ok"], built.info)
    /\ UNCHANGED <<now, username, password, inst, method, vehicle, trips, dash,
                   lock, charging, web>>

\* _refresh_tokens resumes with the token endpoint's response
RefreshResponse(t, resp) ==
    /\ pc[t] = "refresh_wait"
    /\ LET built == BuildTokenInfo(resp.body, now)
           o == Got(obs[t], "refresh", resp)
       IN
       IF resp.status # HTTP_OK
       THEN RefreshRaised(t, o, "LoginError") /\ Keep
       ELSE IF built.exc # "none"
       THEN RefreshRaised(t, o, built.exc) /\ Keep
       ELSE /\ Store(inst[t], built.info)
            /\ Resume(t, method[t],
                      [o EXCEPT !.stored = @ + 1, !.refreshExc = "ok"], built.info)
    /\ UNCHANGED <<now, username, password, inst, method, vehicle, trips, dash,
                   lock, charging, web>>

\* the scripted exchange NameCallback, PasswordCallback, token identifier,
\* 302 with a code, complete token response: how many of its responses the
\* call has received in order (0: off script)
ScriptStep(o, at, r, resp) ==
    IF resp.status = HTTP_OK /\ at = "authenticate" /\ r = 1
       /\ resp.body = [callbacks |-> <<NameCb("User Name")>>] THEN 1
    ELSE IF resp.status = HTTP_OK /\ at = "authenticate" /\ r = 2 /\ o.script = 1
       /\ resp.body = [callbacks |-> <<PasswordCb>>] THEN 2
    ELSE IF resp.status = HTTP_OK /\ at = "authenticate" /\ r = 3 /\ o.script = 2
       /\ resp.body = [tokenId |-> "sid"] THEN 3
    ELSE IF resp.status = HTTP_FOUND /\ at = "authorize" /\ o.script = 3
       /\ resp.body = [query |-> << <<"code", "c1">> >>] THEN 4
    ELSE IF resp.status = HTTP_OK /\ at = "token" /\ o.script = 4
       /\ resp.body \in {TokenBody(a, "jwt{uuid}", "rt", e) :
                            a \in AccessTokens, e \in ExpiresIn} THEN 5
    ELSE 0

\* what a response of the handshake adds to the record of the call
Received(o, at, r, resp) ==
    [Got(o, at, resp) EXCEPT
        !.userNotFoundAt =
            IF @ = 0 /\ at = "authenticate" /\ resp.status = HTTP_OK
               /\ HasUserNotFound(resp.body) THEN r ELSE @,
        !.tokenIdAt =
            IF at = "authenticate" /\ resp.status = HTTP_OK
               /\ "tokenId" \in DOMAIN resp.body THEN r ELSE @,
        !.script = ScriptStep(o, at, r, resp)]

\* _perform_authorization up to its get
SendAuthorize(t, o) ==
    Await(t, [o EXCEPT !.authorize = @ + 1], "authorize_wait", 0, EmptyDict, <<>>, None)

\* _retrieve_tokens up to its post
SendTokenRequest(t, o, code) ==
    Await(t, [o EXCEPT !.token = @ + 1], "token_wait", 0, EmptyDict, code, None)

\* (mutant) a loop that runs one round more
NextRoundOneMore(t, c, o, d) ==
    IF round[t] > MaxRounds
    THEN Finish(t, o, "LoginError")
    ELSE IF HasUserNotFound(d)
    THEN Finish(t, o, "InvalidUsernameError")
    ELSE Await(t, [o EXCEPT !.posts = @ + 1], "authenticate_wait", round[t] + 1,
               FillCallbacks(d, username[c], password[c]), <<>>, None)

\* the next iteration of the loop of _perform_authentication, up to its post,
\* or the loop's end
NextRound(t, c, o, d) ==
    IF round[t] >= MaxRounds
    THEN Finish(t, o, "LoginError")
    ELSE IF HasUserNotFound(d)
    THEN Finish(t, o, "InvalidUsernameError")
    ELSE Await(t, [o EXCEPT !.posts = @ + 1], "authenticate_wait", round[t] + 1,
               FillCallbacks(d, username[c], password[c]), <<>>, None)

\* _perform_authentication resumes with the response to its post
AuthenticateResponse(t, resp) ==
    /\ pc[t] = "authenticate_wait"
    /\ LET o == Received(obs[t], "authenticate", round[t], resp) IN
       IF resp.status # HTTP_OK
       THEN Finish(t, o, "LoginError")
       ELSE IF "tokenId" \in DOMAIN resp.body
       THEN SendAuthorize(t, o)
       ELSE NextRound(t, inst[t], o, resp.body)
    /\ Keep
    /\ UNCHANGED <<now, username, password, inst, method, vehicle, trips, dash,
                   lock, charging, web>>

\* _perform_authorization resumes with the response to its get
AuthorizeResponse(t, resp) ==
    /\ pc[t] = "authorize_wait"
    /\ LET parsed == ParseCode(resp.body)
           o == Received(obs[t], "authorize", 0, resp)
       IN
       IF resp.status # HTTP_FOUND
       THEN Finish(t, o, "LoginError")
       ELSE IF parsed.exc # "none"
       THEN Finish(t, o, parsed.exc)
       ELSE SendTokenRequest(t, o, parsed.code)
    /\ Keep
    /\ UNCHANGED <<now, username, password, inst, method, vehicle, trips, dash,
                   lock, charging, web>>

\* _retrieve_tokens resumes with the token endpoint's response; _authenticate
\* hands the body to _update_tokens
TokenResponse(t, resp) ==
    /\ pc[t] = "token_wait"
    /\ LET built == BuildTokenInfo(resp.body, now)
           o == Received(obs[t], "token", 0, resp)
       IN
       IF resp.status # HTTP_OK
       THEN Finish(t, o, "LoginError") /\ Keep
       ELSE IF built.exc # "none"
       THEN Finish(t, o, built.exc) /\ Keep
       ELSE /\ Store(inst[t], built.info)
            /\ Resume(t, method[t], [o EXCEPT !.stored = @ + 1], built.info)
    /\ UNCHANGED <<now, username, password, inst, method, vehicle, trips, dash,
                   lock, charging, web>>

\* (mutant) a request that is sent again after an error status
RequestResponseRetry(t, resp) ==
    /\ pc[t] = "request_wait"
    /\ LET o == Got(obs[t], "request", resp) IN
       IF resp.status \in {HTTP_OK, HTTP_ACCEPTED}
       THEN Finish(t, [o EXCEPT !.returned = o.last], "ok")
       ELSE IF o.api < 2
       THEN SendRequest(t, o, token_info[inst[t]])
       ELSE Finish(t, o, "ApiError")
    /\ Keep
    /\ UNCHANGED <<now, username, password, inst, method, vehicle, trips, dash,
                   lock, charging, web>>

\* request_raw resumes with the API's response
RequestResponse(t, resp) ==
    /\ pc[t] = "request_wait"
    /\ LET o == Got(obs[t], "request", resp) IN
       IF resp.status \in {HTTP_OK, HTTP_ACCEPTED}
       THEN Finish(t, [o EXCEPT !.returned = o.last], "ok")
       ELSE Finish(t, o, "ApiError")
    /\ Keep
    /\ UNCHANGED <<now, username, password, inst, method, vehicle, trips, dash,
                   lock, charging, web>>

\* the calls of tasks T on controllers C of accounts U, with the methods and
\* against the responses of the environment E
Run(T, C, U, E) ==
    \/ Tick
    \/ \E c \in C, u \in U : Construct(c, u)
    \/ \E t \in T, c \in C : Login(t, c)
    \/ \E t \in T, c \in C, m \in E.methods : Request(t, c, m)
    \/ \E t \in T, resp \in E.token : RefreshResponse(t, resp)
    \/ \E t \in T, resp \in E.authenticate : AuthenticateResponse(t, resp)
    \/ \E t \in T, resp \in E.authorize : AuthorizeResponse(t, resp)
    \/ \E t \in T, resp \in E.token : TokenResponse(t, resp)
    \/ \E t \in T, resp \in E.api : RequestResponse(t, resp)

\* every response the model knows
AnyResponse ==
    [methods |-> Methods, authenticate |-> AuthResponses,
     authorize |-> AuthorizeResponses, token |-> TokenResponses,
     api |-> ApiResponses]

\* a provider that ends the handshake in its first round and fails, if it
\* fails, at the token endpoint
ShortHandshake ==
    [methods |-> {"GET"},
     authenticate |-> {Response(HTTP_OK, [tokenId |-> "sid"])},
     authorize |-> {Response(HTTP_FOUND, [query |-> << <<"code", "c1">> >>])},
     token |-> {Response(HTTP_OK, TokenBody(a, "jwt{uuid}", "rt", 1)) : a \in AccessTokens}
                  \cup {Response(HTTP_UNAUTHORIZED, TokenBody(1, "jwt{uuid}", "rt", 1))},
     api |-> {Response(s, EmptyDict) : s \in {HTTP_OK, HTTP_UNAUTHORIZED}}]

\* one call at a time on one controller, the whole handshake
Next == Run({1}, {1}, {"alice"}, AnyResponse)

Spec == Init /\ [][Next]_vars

\* concurrent calls on the controllers of one account
NextConcurrent == Run(Tasks, Ctrls, {"alice"}, ShortHandshake)

SpecConcurrent == Init /\ [][NextConcurrent]_vars

\* one call at a time on the controllers of several accounts
NextAccounts == Run({1}, Ctrls, Users, ShortHandshake)

SpecAccounts == Init /\ [][NextAccounts]_vars

\* ----------------------------------------------------------------- Vehicle
\* the endpoints of a Vehicle in the order of api_endpoints; the call of
\* update() to the t-th of them is task t
api_endpoints ==
    <<"location", "health_status", "electric_status", "telemetry",
      "notifications", "status", "service_history", "climate_settings",
      "climate_status", "trip_history">>

\* the endpoints every vehicle is taken to support
AlwaysCapable == {"health_status", "notifications", "trip_history"}

EndpointOf(t) == api_endpoints[t]

\* what vehicle_info can say of the endpoints
Capabilities ==
    {cap \in [Tasks -> BOOLEAN] :
        \A t \in Tasks : EndpointOf(t) \in AlwaysCapable => cap[t]}

\* _endpoint_collect: the calls update() makes
EndpointCollect == {t \in Tasks : vehicle.capable[t]}

\* the payloads the API answers an endpoint call with
Payloads == {"p1", "p2"}

\* the provider and the API as a Vehicle meets them
VehicleResponses ==
    [methods |-> {"GET"},
     authenticate |-> {Response(HTTP_OK, [tokenId |-> "sid"])},
     authorize |-> {Response(HTTP_FOUND, [query |-> << <<"code", "c1">> >>])},
     token |-> {Response(HTTP_OK, TokenBody(a, "jwt{uuid}", "rt", 1)) : a \in AccessTokens}
                \cup {Response(HTTP_UNAUTHORIZED, TokenBody(1, "jwt{uuid}", "rt", 1))},
     api |-> {Response(HTTP_OK, [payload |-> p]) : p \in Payloads}
                \cup {Response(HTTP_UNAUTHORIZED, EmptyDict)}]

\* Vehicle.__init__ on the API of controller 1
NewVehicle(cap) ==
    /\ ~vehicle.constructed
    /\ username[1] # NoUser
    /\ vehicle' = [NoVehicle EXCEPT !.constructed = TRUE, !.capable = cap]
    /\ UNCHANGED <<now, username, password, token_info, TOKEN_CACHE, pc, inst,
                   method, round, data, auth_code, headers, outcome, obs,
                   lastStored, trips, dash,
                   lock, charging, web>>

\* update() up to its await: the coroutines of the endpoint calls are made
\* and handed to asyncio.gather
Update ==
    /\ vehicle.constructed
    /\ vehicle.update # "gathering"
    /\ vehicle.rounds < MaxUpdates
    /\ \A t \in Tasks : pc[t] \in {"idle", "done"}
    /\ vehicle' = [vehicle EXCEPT !.update = "gathering",
                                  !.before = vehicle.endpoint_data,
                                  !.rounds = @ + 1]
    /\ pc' = [t \in Tasks |-> "idle"]
    /\ outcome' = [t \in Tasks |-> "none"]
    /\ obs' = [t \in Tasks |-> NoObs]
    /\ UNCHANGED <<now, username, password, token_info, TOKEN_CACHE, inst,
                   method, round, data, auth_code, headers, lastStored,
                   trips, dash,
                   lock, charging, web>>

\* the event loop runs the calls in their order, each to its first await,
\* before a response is taken
Called(t) == pc[t] # "idle"
AllCalled == \A t \in EndpointCollect : Called(t)

\* parallel_wrapper up to the first await of its endpoint function
Call(t) ==
    /\ vehicle.update = "gathering"
    /\ t \in EndpointCollect /\ ~Called(t)
    /\ \A u \in EndpointCollect : u < t => Called(u)
    /\ Request(t, 1, "GET")

\* (mutant) a gather that keeps the results of the calls that succeeded
GatherRaisesKeepingResults ==
    /\ vehicle.update = "gathering"
    /\ \E t \in EndpointCollect : pc[t] = "done" /\ outcome[t] # "ok"
    /\ vehicle' = [vehicle EXCEPT
          !.update = "failed",
          !.endpoint_data =
              LET ok == {t \in EndpointCollect : pc[t] = "done" /\ outcome[t] = "ok"}
                  names == {EndpointOf(t) : t \in ok}
              IN [n \in DOMAIN vehicle.endpoint_data \cup names |->
                    IF n \in names
                    THEN obs[CHOOSE t \in ok : EndpointOf(t) = n].returned.body
                    ELSE vehicle.endpoint_data[n]]]
    /\ UNCHANGED <<now, username, password, token_info, TOKEN_CACHE, pc, inst,
                   method, round, data, auth_code, headers, outcome, obs,
                   lastStored, trips, dash,
                   lock, charging, web>>

\* `await responses` raises the exception of the first call that failed; the
\* other calls run on and their results are dropped
GatherRaises ==
    /\ vehicle.update = "gathering"
    /\ \E t \in EndpointCollect : pc[t] = "done" /\ outcome[t] # "ok"
    /\ vehicle' = [vehicle EXCEPT !.update = "failed"]
    /\ UNCHANGED <<now, username, password, token_info, TOKEN_CACHE, pc, inst,
                   method, round, data, auth_code, headers, outcome, obs,
                   lastStored, trips, dash,
                   lock, charging, web>>

\* `await responses` returns the results of all calls and the loop stores them
GatherReturns ==
    /\ vehicle.update = "gathering"
    /\ \A t \in EndpointCollect : pc[t] = "done" /\ outcome[t] = "ok"
    /\ vehicle' = [vehicle EXCEPT
          !.update = "done",
          !.endpoint_data =
              LET names == {EndpointOf(t) : t \in EndpointCollect}
              IN [n \in DOMAIN vehicle.endpoint_data \cup names |->
                    IF n \in names
                    THEN obs[CHOOSE t \in EndpointCollect : EndpointOf(t) = n].returned.body
                    ELSE vehicle.endpoint_data[n]]]
    /\ UNCHANGED <<now, username, password, token_info, TOKEN_CACHE, pc, inst,
                   method, round, data, auth_code, headers, outcome, obs,
                   lastStored, trips, dash,
                   lock, charging, web>>

\* a Vehicle on controller 1 and its update() calls
NextVehicle ==
    \/ Tick
    \/ Construct(1, "alice")
    \/ \E cap \in Capabilities : NewVehicle(cap)
    \/ Update
    \/ \E t \in Tasks : Call(t)
    \/ \E t \in Tasks, resp \in VehicleResponses.token :
          AllCalled /\ RefreshResponse(t, resp)
    \/ \E t \in Tasks, resp \in VehicleResponses.authenticate :
          AllCalled /\ AuthenticateResponse(t, resp)
    \/ \E t \in Tasks, resp \in VehicleResponses.authorize :
          AllCalled /\ AuthorizeResponse(t, resp)
    \/ \E t \in Tasks, resp \in VehicleResponses.token :
          AllCalled /\ TokenResponse(t, resp)
    \/ \E t \in Tasks, resp \in VehicleResponses.api :
          AllCalled /\ RequestResponse(t, resp)
    \/ GatherRaises
    \/ GatherReturns

SpecVehicle == Init /\ [][NextVehicle]_vars

\* ------------------------------------------------------- trip summaries
\* dates as datetime.date holds them; toordinal() and weekday() as the
\* library computes them (day 1 is Monday 0001-01-01)
Date(y, m, d) == [year |-> y, month |-> m, day |-> d]

IsLeap(y) == (y % 4 = 0 /\ y % 100 # 0) \/ y % 400 = 0

DaysInMonth(y, m) ==
    IF m = 2 THEN (IF IsLeap(y) THEN 29 ELSE 28)
    ELSE IF m \in {4, 6, 9, 11} THEN 30 ELSE 31

DaysBeforeYear(y) ==
    (y - 1) * 365 + ((y - 1) \div 4) - ((y - 1) \div 100) + ((y - 1) \div 400)

RECURSIVE DaysBeforeMonth(_, _)
DaysBeforeMonth(y, m) ==
    IF m = 1 THEN 0 ELSE DaysBeforeMonth(y, m - 1) + DaysInMonth(y, m - 1)

ToOrdinal(d) == DaysBeforeYear(d.year) + DaysBeforeMonth(d.year, d.month) + d.day

Weekday(d) == (ToOrdinal(d) + 6) % 7

\* (mutant) weeks that begin on Sunday
WeekFloorSunday(d) == ToOrdinal(d) - (ToOrdinal(d) % 7)

\* Arrow(...).span("week")[0]: the Monday of the week of a day, as an ordinal
WeekFloor(d) == ToOrdinal(d) - Weekday(d)

DateMin(a, b) == IF ToOrdinal(a) <= ToOrdinal(b) THEN a ELSE b

\* the date of a Histogram Record
DateOf(h) == Date(h.year, h.month, h.day)

\* average_speed, a float, is held in 64ths: the means of up to six merges of
\* whole speeds are exact
SpeedScale == 64

\* _SummaryBaseModel; `countries` is a reference to a list object
SummaryBaseModel(l, d, cs, mx, avg, f) ==
    [length |-> l, duration |-> d, duration_idle |-> d - 1, countries |-> cs,
     max_speed |-> mx, average_speed |-> avg * SpeedScale,
     length_overspeed |-> l - 1, duration_overspeed |-> d - 2,
     length_highway |-> l + 2, duration_highway |-> d + 1,
     fuel_consumption |-> f]

\* the fields of a Summary Record that the merge adds
AdditiveFields ==
    {"length", "duration", "duration_idle", "length_overspeed",
     "duration_overspeed", "length_highway", "duration_highway"}

\* an Optional number that is present
Some(n) == [value |-> n]

\* _HDCModel
HDCFields ==
    {"ev_time", "ev_distance", "charge_time", "charge_dist", "eco_time",
     "eco_dist", "power_time", "power_dist"}

HDCModel(t, d) ==
    [f \in HDCFields |->
        IF f \in {"ev_time", "eco_time"} THEN Some(t)
        ELSE IF f \in {"ev_distance", "eco_dist"} THEN Some(d) ELSE None]

\* add_with_none of two Optional numbers: None is the absent operand
add_with_none(this, that) ==
    IF this = None THEN that ELSE IF that = None THEN this
    ELSE Some(this.value + that.value)

\* (mutant) an extend that tests the members against the list as it was
ExtendAtOnce(mine, others) ==
    mine \o SelectSeq(others, LAMBDA x : \A i \in 1..Len(mine) : mine[i] # x)

\* self.countries.extend(x for x in other.countries if x not in self.countries):
\* the test reads the list as it grows
RECURSIVE Extend(_, _)
Extend(mine, others) ==
    IF others = <<>> THEN mine
    ELSE Extend(IF \E i \in 1..Len(mine) : mine[i] = Head(others)
                THEN mine ELSE Append(mine, Head(others)),
                Tail(others))

\* (mutant) a merge that takes the mean of the speeds weighted by duration
AddWeighted(self, other, lists) ==
    IF other = None THEN [self |-> self, lists |-> lists]
    ELSE [self |->
            [f \in DOMAIN self |->
                IF f \in AdditiveFields THEN self[f] + other[f]
                ELSE IF f = "max_speed"
                THEN (IF self[f] >= other[f] THEN self[f] ELSE other[f])
                ELSE IF f = "average_speed"
                THEN (self[f] * self.duration + other[f] * other.duration)
                         \div (self.duration + other.duration)
                ELSE IF f = "fuel_consumption" THEN add_with_none(self[f], other[f])
                ELSE self[f]],
          lists |-> [lists EXCEPT ![self.countries] =
                        Extend(@, lists[other.countries])]]

\* _SummaryBaseModel.__add__: self is changed in place and returned; the list
\* its `countries` refers to is extended in place
Add(self, other, lists) ==
    IF other = None THEN [self |-> self, lists |-> lists]
    ELSE [self |->
            [f \in DOMAIN self |->
                IF f \in AdditiveFields THEN self[f] + other[f]
                ELSE IF f = "max_speed"
                THEN (IF self[f] >= other[f] THEN self[f] ELSE other[f])
                ELSE IF f = "average_speed" THEN (self[f] + other[f]) \div 2
                ELSE IF f = "fuel_consumption" THEN add_with_none(self[f], other[f])
                ELSE self[f]],
          lists |-> [lists EXCEPT ![self.countries] =
                        Extend(@, lists[other.countries])]]

\* _HDCModel.__add__
AddHDC(self, other) ==
    IF other = None THEN self
    ELSE [f \in HDCFields |-> add_with_none(self[f], other[f])]

\* add_with_none(build_hdc, hdc) as a statement: its result is dropped, so
\* build_hdc changes only when `+` changes the object it names
AddHDCInPlace(build_hdc, hdc) ==
    IF build_hdc = None \/ hdc = None THEN build_hdc ELSE AddHDC(build_hdc, hdc)

\* a Summary: the folded record, its window and its HDC record
Summary(build_summary, from_date, to_date, build_hdc) ==
    [summary |-> build_summary, from_date |-> from_date, to_date |-> to_date,
     hdc |-> build_hdc]

\* summary.sort(key=attrgetter("year", "month"))
SortMonths(summary) ==
    SortSeq(summary, LAMBDA a, b :
        a.year < b.year \/ (a.year = b.year /\ a.month < b.month))

\* the histograms of all months, sorted by date
RECURSIVE Flatten(_)
Flatten(summary) ==
    IF summary = <<>> THEN <<>>
    ELSE Head(summary).histograms \o Flatten(Tail(summary))

SortHistograms(histograms) ==
    SortSeq(histograms, LAMBDA a, b : ToOrdinal(DateOf(a)) < ToOrdinal(DateOf(b)))

\* the accumulators of a fold, before its first record
NoBuild(lists) ==
    [ret |-> <<>>, lists |-> lists, build_summary |-> None, build_hdc |-> None,
     start_date |-> None]

\* the groupby loop of _generate_weekly_summaries from the i-th histogram on
RECURSIVE WeeklyFrom(_, _, _)
WeeklyFrom(hs, i, st) ==
    IF i > Len(hs) THEN st
    ELSE LET h == hs[i]
             first == i = 1 \/ WeekFloor(DateOf(hs[i - 1])) # WeekFloor(DateOf(h))
             last == i = Len(hs) \/ WeekFloor(DateOf(hs[i + 1])) # WeekFloor(DateOf(h))
             m == Add(st.build_summary, h.summary, st.lists)
             s1 == IF first
                   THEN [st EXCEPT !.build_hdc = h.hdc,
                                   !.build_summary = h.summary,
                                   !.start_date = DateOf(h)]
                   ELSE [st EXCEPT !.build_hdc = AddHDCInPlace(@, h.hdc),
                                   !.build_summary = m.self,
                                   !.lists = m.lists]
             s2 == IF last
                   THEN [s1 EXCEPT !.ret = Append(@,
                            Summary(s1.build_summary, s1.start_date, DateOf(h),
                                    s1.build_hdc))]
                   ELSE s1
         IN WeeklyFrom(hs, i + 1, s2)

\* Vehicle._generate_weekly_summaries
generate_weekly_summaries(summary, lists) ==
    WeeklyFrom(SortHistograms(Flatten(SortMonths(summary))), 1, NoBuild(lists))

\* the zip loop of _generate_yearly_summaries from the i-th month on
RECURSIVE YearlyFrom(_, _, _, _)
YearlyFrom(ms, i, to_date, st) ==
    IF i > Len(ms) THEN st
    ELSE LET month == ms[i]
             next_month == IF i < Len(ms) THEN ms[i + 1] ELSE None
             m == Add(st.build_summary, month.summary, st.lists)
             s1 == [st EXCEPT !.build_hdc = AddHDCInPlace(@, month.hdc),
                              !.build_summary = m.self,
                              !.lists = m.lists]
             closes == next_month = None \/ next_month.year # month.year
             s2 == [s1 EXCEPT !.ret = Append(@,
                       Summary(s1.build_summary, s1.start_date,
                               DateMin(to_date, Date(month.year, 12, 31)),
                               s1.build_hdc))]
             s3 == IF next_month = None THEN s2
                   ELSE [s2 EXCEPT
                           !.start_date = Date(next_month.year, next_month.month, 1),
                           !.build_hdc = next_month.hdc,
                           !.build_summary = next_month.summary]
         IN YearlyFrom(ms, i + 1, to_date, IF closes THEN s3 ELSE s1)

\* Vehicle._generate_yearly_summaries
generate_yearly_summaries(summary, to_date, lists) ==
    LET ms == SortMonths(summary)
        st == [NoBuild(lists) EXCEPT
                 !.build_hdc = ms[1].hdc,
                 !.build_summary = ms[1].summary,
                 !.start_date = Date(ms[1].year, ms[1].month, 1)]
    IN IF Len(ms) = 1
       THEN [st EXCEPT !.ret = <<Summary(st.build_summary, st.start_date, to_date,
                                         st.build_hdc)>>]
       ELSE YearlyFrom(ms, 2, to_date, st)

\* what the API reports of a period: a Summary Record, the members of its
\* countries list, and its HDC record
PeriodValues ==
    << [l |-> 10, d |-> 3, cs |-> <<"DE">>, mx |-> 100, avg |-> 40,
        f |-> Some(7), hdc |-> HDCModel(5, 2)],
       [l |-> 20, d |-> 5, cs |-> <<"FR", "DE">>, mx |-> 130, avg |-> 80,
        f |-> None, hdc |-> None],
       [l |-> 35, d |-> 4, cs |-> <<"DE", "NL">>, mx |-> 90, avg |-> 60,
        f |-> Some(4), hdc |-> HDCModel(1, 8)] >>

Values == 1..Len(PeriodValues)

\* the Summary Record of a value, its countries in the list object `ref`
RecordOf(v, ref) ==
    LET p == PeriodValues[v] IN SummaryBaseModel(p.l, p.d, ref, p.mx, p.avg, p.f)

\* the months and the days of the responses, and the caller's to_date
YearMonths == {<<2023, 11>>, <<2023, 12>>, <<2024, 1>>, <<2024, 2>>, <<2025, 1>>}
MonthKey(ym) == ym[1] * 12 + ym[2]
Calendar ==
    {Date(2024, m, d) : m \in {1, 2}, d \in 1..31} \ {Date(2024, 2, d) : d \in 30..31}
FirstDay == Date(2024, 1, 22)
FromOrdinal(n) == CHOOSE d \in Calendar : ToOrdinal(d) = n
ToDates == {Date(2023, 12, 20), Date(2024, 2, 15), Date(2025, 6, 30)}

\* the sequence of the members of a set of numbers, ascending
RECURSIVE Ascending(_)
Ascending(S) ==
    IF S = {} THEN <<>>
    ELSE LET x == CHOOSE x \in S : \A y \in S : x <= y
         IN <<x>> \o Ascending(S \ {x})

Reverse(q) == [i \in 1..Len(q) |-> q[Len(q) + 1 - i]]

\* a _SummaryItemModel without histograms: month `ym`, the k-th of the response
MonthItem(ym, v, k) ==
    [year |-> ym[1], month |-> ym[2], summary |-> RecordOf(v, k),
     hdc |-> PeriodValues[v].hdc, histograms |-> <<>>]

\* a response of monthly records, ascending or descending, for a yearly summary
YearlyInput(keys, vs, descending, to_date) ==
    LET asc == [k \in 1..Len(keys) |->
                  MonthItem(CHOOSE ym \in YearMonths : MonthKey(ym) = keys[k], vs[k], k)]
    IN [call |-> "asked", summary_type |-> "YEARLY",
        summary |-> IF descending THEN Reverse(asc) ELSE asc,
        lists |-> [k \in 1..Len(keys) |-> PeriodValues[vs[k]].cs],
        to_date |-> to_date]

\* the responses to a range that ends at to_date: no month begins after it
InRange(K, to_date) ==
    \A ym \in YearMonths :
        MonthKey(ym) \in K => ToOrdinal(Date(ym[1], ym[2], 1)) <= ToOrdinal(to_date)

YearlyInputs ==
    {YearlyInput(Ascending(kt[1]), vs, desc, kt[2]) :
        kt \in {kt \in (SUBSET {MonthKey(ym) : ym \in YearMonths}) \X ToDates :
                   Cardinality(kt[1]) \in 1..MaxMonths /\ InRange(kt[1], kt[2])},
        vs \in [1..MaxMonths -> Values], desc \in BOOLEAN}

\* a _HistogramModel: the j-th day of the response
HistogramItem(n, v, j) ==
    LET d == FromOrdinal(n)
    IN [year |-> d.year, month |-> d.month, day |-> d.day,
        summary |-> RecordOf(v, MaxMonths + j), hdc |-> PeriodValues[v].hdc]

\* a response with the days `days` (ordinals, ascending), each in its month
WeeklyInput(days, vs) ==
    LET hs == [j \in 1..Len(days) |-> HistogramItem(days[j], vs[j], j)]
        months == Ascending({hs[j].month : j \in 1..Len(hs)})
    IN [call |-> "asked", summary_type |-> "WEEKLY",
        summary |-> [k \in 1..Len(months) |->
                        [year |-> 2024, month |-> months[k],
                         summary |-> RecordOf(1, k), hdc |-> None,
                         histograms |-> SelectSeq(hs, LAMBDA h : h.month = months[k])]],
        lists |-> [r \in 1..(MaxMonths + Len(days)) |->
                     IF r <= MaxMonths THEN PeriodValues[1].cs
                     ELSE PeriodValues[vs[r - MaxMonths]].cs],
        to_date |-> FromOrdinal(days[Len(days)])]

\* eight consecutive days from each day of two weeks on, and up to MaxDays
\* of ten days that span the end of a week and the end of a month
EightDays ==
    {WeeklyInput([j \in 1..8 |-> ToOrdinal(FirstDay) + s + j - 1],
                 [j \in 1..8 |-> (j % Len(PeriodValues)) + 1]) : s \in 0..13}

FewDays ==
    {WeeklyInput(Ascending(D), vs) :
        D \in {D \in SUBSET {ToOrdinal(FirstDay) + s : s \in 2..11} :
                  Cardinality(D) \in 1..MaxDays},
        vs \in [1..MaxDays -> Values]}

\* three Summary Records to merge
MergeInputs ==
    {[call |-> "asked", summary_type |-> "MERGE",
      summary |-> [k \in 1..3 |-> RecordOf(vs[k], k)],
      lists |-> [k \in 1..3 |-> PeriodValues[vs[k]].cs],
      to_date |-> None] : vs \in [1..3 -> Values]}

\* a record with the members of its countries list
Resolve(record, lists) == [record EXCEPT !.countries = lists[@]]

\* what a call has returned: the Summaries, and the list objects after it
Returned(st) ==
    [trips EXCEPT !.call = "returned",
                  !.after = st.lists,
                  !.ret = [i \in 1..Len(st.ret) |->
                             [st.ret[i] EXCEPT !.summary = Resolve(@, st.lists)]]]

\* get_summary(..., SummaryType.WEEKLY) on a response with a summary
GetWeeklySummary ==
    /\ trips.call = "asked" /\ trips.summary_type = "WEEKLY"
    /\ trips' = Returned(generate_weekly_summaries(trips.summary, trips.lists))
    /\ UNCHANGED <<now, username, password, token_info, TOKEN_CACHE, pc, inst,
                   method, round, data, auth_code, headers, outcome, obs,
                   lastStored, vehicle, dash,
                   lock, charging, web>>

\* get_summary(..., SummaryType.YEARLY) on a response with a summary
GetYearlySummary ==
    /\ trips.call = "asked" /\ trips.summary_type = "YEARLY"
    /\ trips' = Returned(generate_yearly_summaries(trips.summary, trips.to_date,
                                                   trips.lists))
    /\ UNCHANGED <<now, username, password, token_info, TOKEN_CACHE, pc, inst,
                   method, round, data, auth_code, headers, outcome, obs,
                   lastStored, vehicle, dash,
                   lock, charging, web>>

\* a, b and c merged as (a + b) + c and, from the same values, as a + (b + c)
MergeThree ==
    /\ trips.call = "asked" /\ trips.summary_type = "MERGE"
    /\ LET a == trips.summary[1]
           b == trips.summary[2]
           c == trips.summary[3]
           ab == Add(a, b, trips.lists)
           left == Add(ab.self, c, ab.lists)
           bc == Add(b, c, trips.lists)
           right == Add(a, bc.self, bc.lists)
       IN trips' = [trips EXCEPT
             !.call = "returned",
             !.after = left.lists,
             !.ret = <<Resolve(left.self, left.lists),
                       Resolve(right.self, right.lists)>>]
    /\ UNCHANGED <<now, username, password, token_info, TOKEN_CACHE, pc, inst,
                   method, round, data, auth_code, headers, outcome, obs,
                   lastStored, vehicle, dash,
                   lock, charging, web>>

\* _generate_daily_summaries: one Summary per day, the months in order and
\* the days of a month in order
generate_daily_summaries(summary, lists) ==
    LET ms == SortMonths(summary)
        hs == Flatten([k \in 1..Len(ms) |->
                  [ms[k] EXCEPT !.histograms = SortSeq(@, LAMBDA a, b : a.day < b.day)]])
    IN [NoBuild(lists) EXCEPT !.ret =
          [i \in 1..Len(hs) |->
              Summary(hs[i].summary, DateOf(hs[i]), DateOf(hs[i]), hs[i].hdc)]]

\* _generate_monthly_summaries: one Summary per month, its window cut to the
\* range asked for
generate_monthly_summaries(summary, from_date, to_date, lists) ==
    LET ms == SortMonths(summary)
    IN [NoBuild(lists) EXCEPT !.ret =
          [k \in 1..Len(ms) |->
              LET month_start == Date(ms[k].year, ms[k].month, 1)
                  month_end == Date(ms[k].year, ms[k].month,
                                    DaysInMonth(ms[k].year, ms[k].month))
              IN Summary(ms[k].summary,
                         IF ToOrdinal(month_start) >= ToOrdinal(from_date)
                         THEN month_start ELSE from_date,
                         DateMin(month_end, to_date),
                         ms[k].hdc)]]

\* get_summary from the response of get_trips on, `today` being date.today()
get_summary(summary, from_date, to_date, summary_type, today, lists) ==
    IF summary = <<>> THEN NoBuild(lists)
    ELSE IF summary_type = "DAILY" THEN generate_daily_summaries(summary, lists)
    ELSE IF summary_type = "WEEKLY" THEN generate_weekly_summaries(summary, lists)
    ELSE IF summary_type = "MONTHLY"
    THEN generate_monthly_summaries(summary, from_date, DateMin(to_date, today), lists)
    ELSE generate_yearly_summaries(summary, DateMin(to_date, today), lists)

\* (mutant) a current week that begins on the Monday before
FloorEarlier(frame, today) ==
    IF frame = "day" THEN today
    ELSE IF frame = "week" THEN FromOrdinal(WeekFloor(today) - 7)
    ELSE IF frame = "month" THEN Date(today.year, today.month, 1)
    ELSE Date(today.year, 1, 1)

\* Arrow.now().floor(frame).date(); for "day", Arrow.now().date()
Floor(frame, today) ==
    IF frame = "day" THEN today
    ELSE IF frame = "week" THEN FromOrdinal(WeekFloor(today))
    ELSE IF frame = "month" THEN Date(today.year, today.month, 1)
    ELSE Date(today.year, 1, 1)

\* the SummaryType each get_current_..._summary asks for
SummaryTypeOf(frame) ==
    CASE frame = "day" -> "DAILY" [] frame = "week" -> "WEEKLY"
      [] frame = "month" -> "MONTHLY" [] frame = "year" -> "YEARLY"

\* the responses to get_current_day_summary, ..._week_, ..._month_ and
\* ..._year_summary on a Monday, on a Friday whose week began in the month
\* before, on a Sunday and, for the year, in March: up to MaxDays days, or up
\* to MaxMonths months, of the range from the floor to today, each once
CurrentInputs ==
    LET asked(frame, today, summary, lists) ==
            [call |-> "asked", summary_type |-> "CURRENT", frame |-> frame,
             today |-> today, summary |-> summary, lists |-> lists,
             to_date |-> today, raised |-> FALSE, result |-> None]
        ofDays(frame, today) ==
            {IF D = {} THEN asked(frame, today, <<>>, <<>>)
             ELSE LET w == WeeklyInput(Ascending(D),
                                       [j \in 1..MaxDays |-> (j % Len(PeriodValues)) + 1])
                  IN asked(frame, today, w.summary, w.lists) :
                D \in {D \in SUBSET (ToOrdinal(Floor(frame, today))..ToOrdinal(today)) :
                          Cardinality(D) <= MaxDays}}
        ofMonths(frame, today) ==
            {LET ms == Ascending(M)
                 asc == [k \in 1..Len(ms) |->
                            MonthItem(<<today.year, ms[k]>>, (k % Len(PeriodValues)) + 1, k)]
             IN asked(frame, today, IF descending THEN Reverse(asc) ELSE asc,
                      [k \in 1..Len(ms) |-> PeriodValues[(k % Len(PeriodValues)) + 1].cs]) :
                M \in {M \in SUBSET (Floor(frame, today).month..today.month) :
                          Cardinality(M) <= MaxMonths},
                descending \in BOOLEAN}
        days == {Date(2024, 1, 22), Date(2024, 2, 2), Date(2024, 2, 4)}
    IN UNION {ofDays(frame, today) : frame \in {"day", "week"}, today \in days}
       \cup UNION {ofMonths(frame, today) :
                      frame \in {"month", "year"}, today \in days \cup {Date(2024, 3, 10)}}

\* get_current_day_summary, get_current_week_summary,
\* get_current_month_summary and get_current_year_summary: the range, the
\* summary of it, the assertion and the Summary returned
get_current_summary ==
    /\ trips.call = "asked" /\ trips.summary_type = "CURRENT"
    /\ LET st == get_summary(trips.summary, Floor(trips.frame, trips.today),
                             trips.today, SummaryTypeOf(trips.frame), trips.today,
                             trips.lists)
       IN trips' = [Returned(st) EXCEPT
             !.raised = ~(Len(st.ret) < 2),
             !.result = IF Len(st.ret) = 1 THEN Some(Resolve(st.ret[1].summary, st.lists))
                        ELSE None]
    /\ UNCHANGED <<now, username, password, token_info, TOKEN_CACHE, pc, inst,
                   method, round, data, auth_code, headers, outcome, obs,
                   lastStored, vehicle, dash, lock, charging, web>>

\* two Summary Records to merge, or one and an absent one; the countries of
\* the second may name a country twice
MergePairs ==
    {[call |-> "asked", summary_type |-> "ADD",
      summary |-> <<RecordOf(va, 1), IF vb = 0 THEN None ELSE RecordOf(vb, 2)>>,
      lists |-> <<ca, cb>>, to_date |-> None] :
        va \in Values, vb \in {0} \cup Values,
        ca \in {<<"DE">>, <<"FR", "DE">>},
        cb \in {<<>>, <<"DE", "NL">>, <<"NL", "NL", "DE">>}}

\* a += b
MergeTwo ==
    /\ trips.call = "asked" /\ trips.summary_type = "ADD"
    /\ LET m == Add(trips.summary[1], trips.summary[2], trips.lists)
       IN trips' = [trips EXCEPT !.call = "returned",
                                 !.after = m.lists,
                                 !.ret = <<Resolve(m.self, m.lists)>>]
    /\ UNCHANGED <<now, username, password, token_info, TOKEN_CACHE, pc, inst,
                   method, round, data, auth_code, headers, outcome, obs,
                   lastStored, vehicle, dash, lock, charging, web>>

InitTrips ==
    /\ InitController
    /\ Idle(Domains \ {"trips"})
    /\ trips \in {t @@ [after |-> t.lists, ret |-> <<>>] :
                    t \in YearlyInputs \cup EightDays \cup FewDays \cup MergeInputs
                          \cup MergePairs \cup CurrentInputs}

NextTrips ==
    \/ GetWeeklySummary \/ GetYearlySummary \/ MergeThree \/ MergeTwo
    \/ get_current_summary

SpecTrips == InitTrips /\ [][NextTrips]_vars

\* ------------------------------------------------------------- dashboard
\* the units of distance, and distances held in thousandths
KILOMETERS_UNIT == "km"
MILES_UNIT == "mi"
Thousandths == 1000

\* UnitValueModel: a value and a unit, either of which may be None
UnitValueModel(u, v) == [unit |-> u, value |-> v]

\* Distance: a value in a unit
Distance(v, u) == [value |-> v, unit |-> u]

\* convert_distance: a value in the unit it came in, given in the unit asked for
convert_distance(to_unit, from_unit, value) ==
    IF to_unit = from_unit THEN value
    ELSE IF from_unit = KILOMETERS_UNIT THEN (value * 621) \div 1000
    ELSE (value * 1609) \div 1000

\* a UnitValueModel that is there, with a unit and a value
HasUnitAndValue(uv) == uv # None /\ uv.unit # None /\ uv.value # None

\* the float a property returns for a UnitValueModel with unit and value
Converted(unit, uv) == Some(convert_distance(unit, uv.unit.value, uv.value.value))

\* the ..._with_unit properties
with_unit(value, unit) ==
    IF value # None THEN Distance(value.value, unit) ELSE None

\* (mutant) a fallback that any distance-to-empty of the telemetry triggers
battery_range_any_vehicle(d) ==
    IF d.electric # None /\ HasUnitAndValue(d.electric.ev_range)
    THEN Converted(d.distance_unit, d.electric.ev_range)
    ELSE IF /\ d.telemetry # None
            /\ HasUnitAndValue(d.telemetry.distance_to_empty)
    THEN Converted(d.distance_unit, d.telemetry.distance_to_empty)
    ELSE None

\* (mutant) a reading of 0 taken for an absent one
battery_range_truthy(d) ==
    IF /\ d.electric # None /\ HasUnitAndValue(d.electric.ev_range)
       /\ d.electric.ev_range.value.value # 0
    THEN Converted(d.distance_unit, d.electric.ev_range)
    ELSE IF /\ d.telemetry # None
            /\ d.telemetry.battery_level # None
            /\ HasUnitAndValue(d.telemetry.distance_to_empty)
    THEN Converted(d.distance_unit, d.telemetry.distance_to_empty)
    ELSE None

\* Dashboard.battery_range
battery_range(d) ==
    IF d.electric # None /\ HasUnitAndValue(d.electric.ev_range)
    THEN Converted(d.distance_unit, d.electric.ev_range)
    ELSE IF /\ d.telemetry # None
            /\ d.telemetry.battery_level # None
            /\ HasUnitAndValue(d.telemetry.distance_to_empty)
    THEN Converted(d.distance_unit, d.telemetry.distance_to_empty)
    ELSE None

\* Dashboard.battery_range_with_ac
battery_range_with_ac(d) ==
    IF d.electric = None \/ d.electric.ev_range_with_ac = None THEN None
    ELSE IF d.electric.ev_range_with_ac.unit = None
            \/ d.electric.ev_range_with_ac.value = None THEN None
    ELSE Converted(d.distance_unit, d.electric.ev_range_with_ac)

\* (mutant) a fuel range that falls back to the telemetry of any vehicle
fuel_range_any_vehicle(d) ==
    IF d.electric # None /\ HasUnitAndValue(d.electric.fuel_range)
    THEN Converted(d.distance_unit, d.electric.fuel_range)
    ELSE IF /\ d.telemetry # None
            /\ HasUnitAndValue(d.telemetry.distance_to_empty)
    THEN Converted(d.distance_unit, d.telemetry.distance_to_empty)
    ELSE None

\* Dashboard.fuel_range
fuel_range(d) ==
    IF d.electric # None /\ HasUnitAndValue(d.electric.fuel_range)
    THEN Converted(d.distance_unit, d.electric.fuel_range)
    ELSE IF /\ d.telemetry # None
            /\ HasUnitAndValue(d.telemetry.distance_to_empty)
            /\ d.telemetry.battery_level = None
    THEN Converted(d.distance_unit, d.telemetry.distance_to_empty)
    ELSE None

\* Dashboard.range
range(d) ==
    IF d.telemetry # None /\ HasUnitAndValue(d.telemetry.distance_to_empty)
    THEN Converted(d.distance_unit, d.telemetry.distance_to_empty)
    ELSE None

\* ElectricStatus.ev_range
ev_range(d) ==
    IF d.electric = None THEN None
    ELSE IF d.electric.ev_range = None THEN None
    ELSE IF d.electric.ev_range.value = None \/ d.electric.ev_range.unit = None
    THEN None
    ELSE Converted(d.distance_unit, d.electric.ev_range)

\* ElectricStatus.ev_range_with_ac
ev_range_with_ac(d) ==
    IF d.electric = None THEN None
    ELSE IF d.electric.ev_range_with_ac = None THEN None
    ELSE IF d.electric.ev_range_with_ac.unit = None
            \/ d.electric.ev_range_with_ac.value = None THEN None
    ELSE Converted(d.distance_unit, d.electric.ev_range_with_ac)

\* the readings the endpoints report: ranges with or without unit and value
Km(n) == UnitValueModel(Some(KILOMETERS_UNIT), Some(n * Thousandths))
Mi(n) == UnitValueModel(Some(MILES_UNIT), Some(n * Thousandths))

EvRanges ==
    {None} \cup {UnitValueModel(u, v) :
                    u \in {None, Some(KILOMETERS_UNIT), Some(MILES_UNIT)},
                    v \in {None, Some(0), Some(200 * Thousandths)}}

DistancesToEmpty ==
    {None, Km(326), Mi(200), Km(0),
     UnitValueModel(None, Some(326 * Thousandths)),
     UnitValueModel(Some(KILOMETERS_UNIT), None)}

\* ElectricStatusModel payloads, and no payload
ElectricPayloads ==
    {None} \cup
    [ev_range : EvRanges,
     ev_range_with_ac : {None, Km(0), Mi(100), UnitValueModel(None, Some(0))},
     fuel_range : {None, Km(326), UnitValueModel(None, Some(326 * Thousandths))}]

\* TelemetryModel payloads, and no payload
TelemetryPayloads ==
    {None} \cup
    [battery_level : {None, Some(0), Some(30)},
     distance_to_empty : DistancesToEmpty]

\* the Dashboard and the ElectricStatus of a vehicle, before they are read
DashInputs ==
    [call : {"made"}, class : {"Dashboard"}, electric : ElectricPayloads,
     telemetry : TelemetryPayloads,
     distance_unit : {KILOMETERS_UNIT, MILES_UNIT}]
    \cup
    [call : {"made"}, class : {"ElectricStatus"}, electric : ElectricPayloads,
     telemetry : {None}, distance_unit : {KILOMETERS_UNIT, MILES_UNIT}]

\* the range properties of a Dashboard are read
ReadDashboard ==
    /\ dash.call = "made" /\ dash.class = "Dashboard"
    /\ dash' = [dash EXCEPT
          !.call = "read",
          !.read = [fuel_range |-> fuel_range(dash),
                    fuel_range_with_unit |->
                        with_unit(fuel_range(dash), dash.distance_unit),
                    battery_range |-> battery_range(dash),
                    battery_range_with_unit |->
                        with_unit(battery_range(dash), dash.distance_unit),
                    battery_range_with_ac |-> battery_range_with_ac(dash),
                    battery_range_with_ac_with_unit |->
                        with_unit(battery_range_with_ac(dash), dash.distance_unit),
                    range |-> range(dash),
                    range_with_unit |-> with_unit(range(dash), dash.distance_unit)]]
    /\ UNCHANGED <<now, username, password, token_info, TOKEN_CACHE, pc, inst,
                   method, round, data, auth_code, headers, outcome, obs,
                   lastStored, vehicle, trips,
                   lock, charging, web>>

\* the range properties of an ElectricStatus are read
ReadElectricStatus ==
    /\ dash.call = "made" /\ dash.class = "ElectricStatus"
    /\ dash' = [dash EXCEPT
          !.call = "read",
          !.read = [ev_range |-> ev_range(dash),
                    ev_range_with_unit |->
                        with_unit(ev_range(dash), dash.distance_unit),
                    ev_range_with_ac |-> ev_range_with_ac(dash),
                    ev_range_with_ac_with_unit |->
                        with_unit(ev_range_with_ac(dash), dash.distance_unit)]]
    /\ UNCHANGED <<now, username, password, token_info, TOKEN_CACHE, pc, inst,
                   method, round, data, auth_code, headers, outcome, obs,
                   lastStored, vehicle, trips,
                   lock, charging, web>>

InitDash ==
    /\ InitController
    /\ Idle(Domains \ {"dash"})
    /\ dash \in {d @@ [read |-> None] : d \in DashInputs}

NextDash == ReadDashboard \/ ReadElectricStatus

SpecDash == InitDash /\ [][NextDash]_vars

\* ---------------------------------------------------------------- claims
\* a task has begun a call in this step
Started(t) ==
    /\ pc[t] \in {"idle", "done"}
    /\ <<pc[t], inst[t], method[t], outcome[t], obs[t]>>'
           # <<pc[t], inst[t], method[t], outcome[t], obs[t]>>

\* the call of a task runs ensure_valid: it is login(), or request_raw with a
\* method that passed the check
EnsuresValid(t) == pc[t] # "idle" /\ method[t] \in {"login", "GET", "POST", "PUT", "DELETE"}

\* C1: when the refresh of an expired credential fails with LoginError, one
\* full authentication attempt follows and no second refresh, however that
\* authentication ends
C1_OneFallback ==
    \A t \in Tasks :
        obs[t].refreshExc = "LoginError" =>
            /\ obs[t].start = "Expired" /\ obs[t].hasRefresh
            /\ obs[t].refresh = 1
            /\ obs[t].authenticate = 1

C1_Witness ==
    \E t \in Tasks :
        /\ pc[t] = "done" /\ outcome[t] = "LoginError"
        /\ obs[t].refreshExc = "LoginError" /\ obs[t].last.at = "token"

\* the policy, in every state of a call
C2_PolicyState ==
    \A t \in Tasks :
        EnsuresValid(t) =>
            /\ obs[t].start = "Valid" =>
                   obs[t].refresh = 0 /\ obs[t].authenticate = 0 /\ obs[t].stored = 0
            /\ obs[t].start # "Valid" /\ obs[t].hasRefresh =>
                   /\ obs[t].refresh = 1
                   /\ obs[t].refreshExc = "ok" => obs[t].authenticate = 0
                   /\ obs[t].authenticate > 0 => obs[t].refreshExc = "LoginError"
            /\ obs[t].start = "Unauthenticated" =>
                   obs[t].refresh = 0 /\ obs[t].authenticate = 1

\* a call that starts with a Valid credential
C2_PolicyStep ==
    \A t \in Tasks :
        Started(t) /\ obs'[t].start = "Valid" =>
            UNCHANGED <<token_info, TOKEN_CACHE>>

\* C2: ensure_valid with a Valid credential sends nothing and stores nothing;
\* with a non-Valid credential that has a refresh token it refreshes first and
\* does not authenticate when the refresh succeeds; with no credential it
\* authenticates without a refresh
C2_Policy == []C2_PolicyState /\ [][C2_PolicyStep]_vars

C2_Witness ==
    \E t \in Tasks :
        /\ pc[t] = "done" /\ outcome[t] = "ok"
        /\ obs[t].start = "Expired" /\ obs[t].hasRefresh
        /\ obs[t].refreshExc = "ok" /\ obs[t].stored = 1

\* C3 (as claimed, for a response that holds no token identifier): once a
\* response of the handshake holds "User Not Found", the call has ended with
\* InvalidUsernameError and has sent nothing after that response
C3_UserNotFoundRaises ==
    \A t \in Tasks :
        obs[t].userNotFoundAt # 0 /\ obs[t].tokenIdAt = 0 =>
            /\ pc[t] = "done" /\ outcome[t] = "InvalidUsernameError"
            /\ obs[t].posts = obs[t].userNotFoundAt
            /\ obs[t].authorize = 0

\* C4: a call posts to the authentication endpoint at most 10 times; a 200
\* response with a token identifier ends the posts and starts the
\* authorization, in the tenth round too; after ten posts and their
\* responses without one the call has ended with LoginError
C4_TenRounds ==
    \A t \in Tasks :
        /\ obs[t].posts <= 10 /\ round[t] <= 10
        /\ obs[t].tokenIdAt # 0 =>
               obs[t].posts = obs[t].tokenIdAt /\ obs[t].authorize = 1
        /\ obs[t].posts = 10 /\ pc[t] # "authenticate_wait" /\ obs[t].tokenIdAt = 0 =>
               pc[t] = "done" /\ outcome[t] = "LoginError"

C4_Witness ==
    \E t \in Tasks :
        /\ obs[t].tokenIdAt = 10 /\ obs[t].stored = 1
        /\ pc[t] = "done" /\ outcome[t] = "ok"

\* the scripted exchange, in every state of a call
C5_ScriptState ==
    \A t \in Tasks :
        /\ pc[t] = "authenticate_wait" /\ round[t] = 2 /\ obs[t].script = 1 =>
               data[t] = [callbacks |->
                   << [NameCb("User Name") EXCEPT !.input = username[inst[t]]] >>]
        /\ pc[t] = "authenticate_wait" /\ round[t] = 3 /\ obs[t].script = 2 =>
               data[t] = [callbacks |->
                   << [PasswordCb EXCEPT !.input = password[inst[t]]] >>]
        /\ obs[t].script = 5 =>
               /\ obs[t].posts = 3 /\ obs[t].authenticate = 1
               /\ obs[t].authorize = 1 /\ obs[t].token = 1 /\ obs[t].stored = 1
               /\ pc[t] \in {"done", "request_wait"}
               /\ pc[t] = "done" /\ method[t] = "login" => outcome[t] = "ok"
               /\ pc[t] = "done" /\ method[t] # "login" =>
                      obs[t].last.at = "request" /\ outcome[t] \in {"ok", "ApiError"}

\* the step that receives the token response of the script
C5_ScriptStep ==
    \A t \in Tasks :
        obs[t].script = 4 /\ obs'[t].script = 5 =>
            LET body == obs'[t].last.body
                c == inst[t]
            IN  /\ token_info'[c] =
                       [access_token |-> body.access_token,
                        refresh_token |-> body.refresh_token,
                        uuid |-> "guid",
                        expiration |-> now + body.expires_in]
                /\ username[c] \in DOMAIN TOKEN_CACHE'
                /\ TOKEN_CACHE'[username[c]] = token_info'[c]

\* C5: in the scripted exchange the second post carries the user name and the
\* third the password; the call sends exactly three posts, one authorization
\* and one token request, and stores, in the controller and in the cache, the
\* record of the token response with expiry = now + expires_in; login() then
\* returns and request_raw sends its request
C5_Scripted == []C5_ScriptState /\ [][C5_ScriptStep]_vars

C5_Witness ==
    \E t \in Tasks :
        /\ pc[t] = "done" /\ method[t] = "login" /\ obs[t].script = 5
        /\ token_info[inst[t]] # None
        /\ token_info[inst[t]].expiration = 2

\* C6: a status other than 200 in a round of the authentication, other than
\* 302 in the authorization, other than 200 in the token exchange or in the
\* refresh, and a token response that lacks one of the four fields, each
\* raise LoginError there: no later step of the handshake is run and nothing
\* is stored (after a refresh, the fallback begins)
Lacks(body) ==
    \E f \in {"access_token", "id_token", "refresh_token", "expires_in"} :
        f \notin DOMAIN body

C6_LoginErrors ==
    \A t \in Tasks :
        LET o == obs[t]
            failed == pc[t] = "done" /\ outcome[t] = "LoginError"
        IN  /\ o.last.at = "authenticate" /\ o.last.status # 200 =>
                   failed /\ o.authorize = 0 /\ o.token = 0 /\ o.stored = 0 /\ o.api = 0
            /\ o.last.at = "authorize" /\ o.last.status # 302 =>
                   failed /\ o.token = 0 /\ o.stored = 0 /\ o.api = 0
            /\ o.last.at = "token" /\ (o.last.status # 200 \/ Lacks(o.last.body)) =>
                   failed /\ o.stored = 0 /\ o.api = 0
            /\ o.last.at = "refresh" /\ (o.last.status # 200 \/ Lacks(o.last.body)) =>
                   /\ o.refreshExc = "LoginError" /\ pc[t] = "authenticate_wait"
                   /\ o.authorize = 0 /\ o.token = 0 /\ o.stored = 0 /\ o.api = 0

C6_Witness ==
    \E t \in Tasks :
        /\ pc[t] = "done" /\ outcome[t] = "LoginError"
        /\ obs[t].last.at = "token" /\ obs[t].last.status = 200
        /\ DOMAIN obs[t].last.body = {"access_token", "id_token", "refresh_token"}

\* C7 (as claimed): once the response of the authorization step is in, either
\* it was a 302 and the token exchange has followed with the code of its
\* Location header, or it was not and the call has ended with LoginError
\* without a token exchange
C7_TwoOutcomes ==
    \A t \in Tasks :
        obs[t].last.at = "authorize" =>
            \/ /\ obs[t].last.status = 302
               /\ pc[t] = "token_wait" /\ obs[t].token = 1
               /\ auth_code[t] # <<>>
            \/ /\ obs[t].last.status # 302
               /\ pc[t] = "done" /\ outcome[t] = "LoginError" /\ obs[t].token = 0

\* C11: once the API's response is in, the call has ended: with status 200 or
\* 202 it has returned that response, with any other status it has raised
\* ApiError; the request was sent once and no refresh or handshake followed it
C11_State ==
    \A t \in Tasks :
        obs[t].last.at = "request" =>
            /\ pc[t] = "done" /\ obs[t].api = 1
            /\ obs[t].last.status \in {HTTP_OK, HTTP_ACCEPTED} =>
                   outcome[t] = "ok" /\ obs[t].returned = obs[t].last
            /\ obs[t].last.status \notin {HTTP_OK, HTTP_ACCEPTED} =>
                   outcome[t] = "ApiError" /\ obs[t].returned = NoResponse

\* the step that takes the API's response sends nothing and stores nothing
C11_Step ==
    \A t \in Tasks :
        pc[t] = "request_wait" /\ pc'[t] # "request_wait" =>
            /\ pc'[t] = "done"
            /\ UNCHANGED <<token_info, TOKEN_CACHE>>
            /\ \A f \in {"refresh", "authenticate", "posts", "authorize",
                          "token", "api", "stored"} : obs'[t][f] = obs[t][f]

\* C11: success is exactly 200 or 202; ApiError otherwise, without a retry and
\* without a token refresh
C11_NoRetry == []C11_State /\ [][C11_Step]_vars

\* a request answered with 401 after a refresh at its start
C11_Witness ==
    \E t \in Tasks :
        /\ pc[t] = "done" /\ outcome[t] = "ApiError"
        /\ obs[t].last.at = "request" /\ obs[t].last.status = HTTP_UNAUTHORIZED
        /\ obs[t].refresh = 1 /\ obs[t].api = 1

\* a task has stored a record in this step
Stored(t) == obs'[t].stored = obs[t].stored + 1

\* what a store, and what any other step, does to the records and the cache
C8_StoreStep ==
    /\ \A t \in Tasks :
           Stored(t) =>
               LET c == inst[t]
                   body == obs'[t].last.body
               IN  /\ token_info'[c] =
                          [access_token |-> body.access_token,
                           refresh_token |-> body.refresh_token,
                           uuid |-> "guid",
                           expiration |-> now + body.expires_in]
                   /\ username[c] \in DOMAIN TOKEN_CACHE'
                   /\ TOKEN_CACHE'[username[c]] = token_info'[c]
                   /\ \A c2 \in Ctrls \ {c} : token_info'[c2] = token_info[c2]
    /\ (\A t \in Tasks : ~Stored(t)) =>
           /\ TOKEN_CACHE' = TOKEN_CACHE
           /\ \A c \in Ctrls : username[c] # NoUser => token_info'[c] = token_info[c]

\* C8: every store writes the record built from the response the task
\* received into its own controller and over the cache entry of the account,
\* and leaves the records of the other controllers alone; no other step
\* changes the cache or a record; so with two controllers of one account in
\* any interleaving each holds what it obtained and the cache what was stored
\* last
C8_LastWriterWins == [](lastStored = TOKEN_CACHE) /\ [][C8_StoreStep]_vars

C8_Witness ==
    /\ pc[1] = "done" /\ pc[2] = "done" /\ inst[1] # inst[2]
    /\ username[inst[1]] = username[inst[2]]
    /\ obs[1].start = "Unauthenticated" /\ obs[2].start = "Unauthenticated"
    /\ obs[1].stored = 1 /\ obs[2].stored = 1
    /\ token_info[inst[1]].access_token = obs[1].last.body.access_token
    /\ token_info[inst[2]].access_token = obs[2].last.body.access_token
    /\ token_info[inst[1]] # token_info[inst[2]]
    /\ TOKEN_CACHE[username[inst[1]]] = token_info[inst[1]]

\* what a step does to the cache and to a controller under construction
C9_CacheStep ==
    /\ DOMAIN TOKEN_CACHE \subseteq DOMAIN TOKEN_CACHE'
    /\ \A c \in Ctrls :
           username[c] = NoUser /\ username'[c] # NoUser =>
               token_info'[c] = IF username'[c] \in DOMAIN lastStored
                                THEN lastStored[username'[c]] ELSE None
    /\ \A t \in Tasks :
           Stored(t) =>
               \A v \in DOMAIN TOKEN_CACHE' \ {username[inst[t]]} :
                   v \in DOMAIN TOKEN_CACHE /\ TOKEN_CACHE'[v] = TOKEN_CACHE[v]
    /\ (\A t \in Tasks : ~Stored(t)) => TOKEN_CACHE' = TOKEN_CACHE

\* C9: the cache never loses an entry; a controller starts with the record
\* stored last for its account, or with none if none was stored; a store
\* for one account leaves the entries of the other accounts as they were
C9_SharedNoEviction == [](lastStored = TOKEN_CACHE) /\ [][C9_CacheStep]_vars

C9_Witness ==
    /\ username[1] = "alice" /\ username[2] = "alice"
    /\ inst[1] = 1 /\ pc[1] = "done" /\ obs[1].stored = 1 /\ obs[1].start = "Expired"
    /\ token_info[2] = token_info[1] /\ token_info[2] = TOKEN_CACHE["alice"]

\* a call with a method outside the four, in every state
C10_State ==
    \A t \in Tasks :
        pc[t] # "idle" /\ method[t] \notin {"login", "GET", "POST", "PUT", "DELETE"} =>
            /\ pc[t] = "done" /\ outcome[t] = "InternalError"
            /\ obs[t].refresh = 0 /\ obs[t].authenticate = 0 /\ obs[t].posts = 0
            /\ obs[t].authorize = 0 /\ obs[t].token = 0 /\ obs[t].api = 0
            /\ obs[t].stored = 0 /\ obs[t].last = NoResponse

\* the step that starts such a call
C10_Step ==
    \A t \in Tasks :
        Started(t) /\ method'[t] \notin {"login", "GET", "POST", "PUT", "DELETE"} =>
            UNCHANGED <<token_info, TOKEN_CACHE>>

\* C10: request_raw with a method outside GET, POST, PUT, DELETE ends at once
\* with InternalError: it has sent nothing to any endpoint and stored nothing,
\* and the step leaves the controller's record and the cache as they were
C10_InvalidMethod == []C10_State /\ [][C10_Step]_vars

C10_Witness ==
    \E t \in Tasks :
        /\ pc[t] = "done" /\ outcome[t] = "InternalError" /\ method[t] = "PATCH"
        /\ obs[t].start = "Expired" /\ obs[t].hasRefresh

\* update() has failed: its data are those it began with
C12_State ==
    /\ vehicle.update = "failed" => vehicle.endpoint_data = vehicle.before
    /\ vehicle.update = "done" =>
          /\ DOMAIN vehicle.endpoint_data =
                 DOMAIN vehicle.before \cup {EndpointOf(t) : t \in EndpointCollect}
          /\ \A t \in EndpointCollect :
                 /\ outcome[t] = "ok"
                 /\ vehicle.endpoint_data[EndpointOf(t)] = obs[t].returned.body

\* the data change only when update() returns, after every call has succeeded
C12_Step ==
    /\ vehicle'.endpoint_data # vehicle.endpoint_data =>
          /\ vehicle.update = "gathering" /\ vehicle'.update = "done"
          /\ \A t \in EndpointCollect : pc[t] = "done" /\ outcome[t] = "ok"
    /\ (\E t \in EndpointCollect : pc[t] = "done" /\ outcome[t] # "ok") =>
          vehicle'.update # "done" \/ vehicle.update = "done"

\* C12: update() is all-or-nothing: when a call of the round fails, update()
\* fails and the endpoint data stay what they were before it; when all
\* succeed, the data of every capable endpoint are replaced by the results
C12_AllOrNothing == []C12_State /\ [][C12_Step]_vars

\* a second update() failed after one of its calls had succeeded
C12_Witness ==
    /\ vehicle.update = "failed" /\ vehicle.rounds = 2
    /\ vehicle.before # EmptyDict
    /\ \E t \in EndpointCollect :
          /\ pc[t] = "done" /\ outcome[t] = "ok"
          /\ obs[t].returned.body # vehicle.endpoint_data[EndpointOf(t)]
    /\ \E t \in EndpointCollect : pc[t] = "done" /\ outcome[t] = "ApiError"

\* every capable endpoint has new data after a second update()
C12_WitnessReplaced ==
    /\ vehicle.update = "done" /\ vehicle.rounds = 2
    /\ Cardinality(EndpointCollect) = 2
    /\ DOMAIN vehicle.before = DOMAIN vehicle.endpoint_data
    /\ \A t \in EndpointCollect :
          vehicle.endpoint_data[EndpointOf(t)] # vehicle.before[EndpointOf(t)]

\* a weekly or yearly summary has been returned
Folded(type) == trips.call = "returned" /\ trips.summary_type = type

\* the sum of a field over the Summary Records of a sequence of periods
RECURSIVE SumOf(_, _)
SumOf(periods, f) ==
    IF periods = <<>> THEN 0 ELSE Head(periods).summary[f] + SumOf(Tail(periods), f)

\* the members of a sequence
Members(q) == {q[i] : i \in 1..Len(q)}

\* the months of a year in a response, and the years of a response
MonthsOf(y) == SelectSeq(trips.summary, LAMBDA m : m.year = y)
YearsOf == {trips.summary[k].year : k \in 1..Len(trips.summary)}

\* C13 (as claimed): after a weekly or yearly fold every list of countries of
\* the response holds what it held before; the other fields of the records
\* are values the fold cannot reach
C13_InputsUnchanged ==
    Folded("WEEKLY") \/ Folded("YEARLY") => trips.after = trips.lists

\* C14 (as claimed): the yearly result has one Summary per year of the input,
\* in order, and the countries of a year's Summary are countries of the months
\* of that year
C14_OnePerYear ==
    Folded("YEARLY") =>
        /\ Len(trips.ret) = Cardinality(YearsOf)
        /\ \A i \in 1..Len(trips.ret) :
              LET y == trips.ret[i].from_date.year
                  ms == MonthsOf(y)
              IN /\ y \in YearsOf
                 /\ \A j \in 1..Len(trips.ret) :
                       trips.ret[j].from_date.year = y => j = i
                 /\ Members(trips.ret[i].summary.countries) \subseteq
                       UNION {Members(trips.lists[ms[k].summary.countries]) :
                                 k \in 1..Len(ms)}

\* the first year of the response holds more than one month
FirstYearHasMonths ==
    Len(MonthsOf(CHOOSE y \in YearsOf : \A z \in YearsOf : y <= z)) > 1

\* C15 (as claimed, for a response whose first year holds more than one
\* month): in the yearly result the additive fields of the Summaries of a year
\* are the sums over the months of that year, and the totals over all
\* Summaries are the totals over all months
C15_FoldedOnce ==
    Folded("YEARLY") /\ FirstYearHasMonths =>
        \A f \in AdditiveFields :
            /\ \A y \in YearsOf :
                  SumOf(SelectSeq(trips.ret, LAMBDA r : r.from_date.year = y), f)
                      = SumOf(MonthsOf(y), f)
            /\ SumOf(trips.ret, f) = SumOf(trips.summary, f)

\* the days of a response, and the Monday-based week of a date counted from
\* day 1 of the calendar, a Monday
DaysOf == Flatten(trips.summary)
WeekNo(d) == (ToOrdinal(d) - 1) \div 7
DaysOfWeek(w) == {ToOrdinal(DateOf(DaysOf[j])) : j \in {j \in 1..Len(DaysOf) : WeekNo(DateOf(DaysOf[j])) = w}}
EightConsecutive ==
    /\ Len(DaysOf) = 8
    /\ \A j \in 1..7 : ToOrdinal(DateOf(DaysOf[j + 1])) = ToOrdinal(DateOf(DaysOf[j])) + 1

\* C16: the weekly result has one Summary per Monday-based week that holds an
\* input day, two for eight consecutive days; the window of a Summary is the
\* first and the last input day of its week, and its additive fields are the
\* sums over the input days of that week, so that every day is folded once
C16_Weekly ==
    Folded("WEEKLY") =>
        LET weeks == {WeekNo(DateOf(DaysOf[j])) : j \in 1..Len(DaysOf)}
        IN /\ Len(trips.ret) = Cardinality(weeks)
           /\ EightConsecutive => Len(trips.ret) = 2
           /\ \A w \in weeks :
                 \E i \in 1..Len(trips.ret) :
                    LET r == trips.ret[i]
                        D == DaysOfWeek(w)
                    IN /\ \A n \in D : ToOrdinal(r.from_date) <= n /\ n <= ToOrdinal(r.to_date)
                       /\ ToOrdinal(r.from_date) \in D /\ ToOrdinal(r.to_date) \in D
                       /\ \A f \in AdditiveFields :
                             r.summary[f] =
                                SumOf(SelectSeq(DaysOf, LAMBDA h : WeekNo(DateOf(h)) = w), f)
           /\ \A f \in AdditiveFields : SumOf(trips.ret, f) = SumOf(DaysOf, f)

\* eight consecutive days of two months, from a Thursday on, in two Summaries
C16_Witness ==
    /\ Folded("WEEKLY") /\ EightConsecutive
    /\ Len(trips.summary) = 2
    /\ Weekday(DateOf(DaysOf[1])) = 3
    /\ Len(trips.ret) = 2
    /\ ToOrdinal(trips.ret[1].to_date) - ToOrdinal(trips.ret[1].from_date) = 3
    /\ ToOrdinal(trips.ret[2].to_date) - ToOrdinal(trips.ret[2].from_date) = 3

\* C17: the two ways to merge three records agree in the additive fields; in
\* average_speed the left fold is ((a + b) / 2 + c) / 2 and the right fold
\* (a + (b + c) / 2) / 2
C17_Associativity ==
    Folded("MERGE") =>
        LET a == trips.summary[1].average_speed
            b == trips.summary[2].average_speed
            c == trips.summary[3].average_speed
            left == trips.ret[1]
            right == trips.ret[2]
        IN /\ \A f \in AdditiveFields :
                 /\ left[f] = right[f]
                 /\ left[f] = trips.summary[1][f] + trips.summary[2][f]
                                 + trips.summary[3][f]
           /\ 4 * left.average_speed = a + b + 2 * c
           /\ 4 * right.average_speed = 2 * a + b + c

\* three records whose two folds differ in average_speed
C17_Witness ==
    /\ Folded("MERGE")
    /\ trips.ret[1].average_speed # trips.ret[2].average_speed
    /\ trips.ret[1].length = trips.ret[2].length

\* what was read of a Dashboard, of an ElectricStatus
ReadOf(class) == dash.call = "read" /\ dash.class = class

\* a range of the electric payload that reads 0 in some unit
IsZero(uv) == HasUnitAndValue(uv) /\ uv.value.value = 0

\* C18: a range of 0 with a unit is read as 0.0, and with its unit as a
\* Distance of 0 in the selected unit, whatever the telemetry holds: for
\* battery_range and battery_range_with_ac of the Dashboard, for ev_range and
\* ev_range_with_ac of the ElectricStatus
C18_ZeroIsPresent ==
    /\ ReadOf("Dashboard") /\ dash.electric # None =>
          /\ IsZero(dash.electric.ev_range) =>
                /\ dash.read.battery_range = Some(0)
                /\ dash.read.battery_range_with_unit = Distance(0, dash.distance_unit)
          /\ IsZero(dash.electric.ev_range_with_ac) =>
                /\ dash.read.battery_range_with_ac = Some(0)
                /\ dash.read.battery_range_with_ac_with_unit
                      = Distance(0, dash.distance_unit)
    /\ ReadOf("ElectricStatus") /\ dash.electric # None =>
          /\ IsZero(dash.electric.ev_range) =>
                /\ dash.read.ev_range = Some(0)
                /\ dash.read.ev_range_with_unit = Distance(0, dash.distance_unit)
          /\ IsZero(dash.electric.ev_range_with_ac) =>
                /\ dash.read.ev_range_with_ac = Some(0)
                /\ dash.read.ev_range_with_ac_with_unit
                      = Distance(0, dash.distance_unit)

\* an EV range of 0 beside a telemetry of a battery level and 326 km to empty
C18_Witness ==
    /\ ReadOf("Dashboard") /\ dash.electric # None /\ dash.telemetry # None
    /\ IsZero(dash.electric.ev_range)
    /\ dash.telemetry.battery_level = Some(30)
    /\ dash.telemetry.distance_to_empty = Km(326)
    /\ dash.read.battery_range = Some(0)
    /\ dash.read.range = Some(326 * Thousandths)

\* the electric endpoint gives no EV range
NoEvRange == dash.electric = None \/ dash.electric.ev_range = None

\* the telemetry reports a battery level and a distance to empty with value
\* and unit
TelemetryOfHybrid ==
    /\ dash.telemetry # None
    /\ dash.telemetry.battery_level # None
    /\ dash.telemetry.distance_to_empty # None
    /\ dash.telemetry.distance_to_empty.unit # None
    /\ dash.telemetry.distance_to_empty.value # None

\* C19: without an EV range of the electric endpoint, battery_range is the
\* telemetry's distance to empty in the selected unit when the telemetry
\* reports a battery level and a distance to empty with value and unit, and
\* None in every other case
C19_Fallback ==
    ReadOf("Dashboard") /\ NoEvRange =>
        IF TelemetryOfHybrid
        THEN dash.read.battery_range =
                Some(convert_distance(dash.distance_unit,
                                      dash.telemetry.distance_to_empty.unit.value,
                                      dash.telemetry.distance_to_empty.value.value))
        ELSE dash.read.battery_range = None

\* a fuel-only vehicle: 326 km to empty, no battery level, no battery range
C19_Witness ==
    /\ ReadOf("Dashboard") /\ NoEvRange
    /\ dash.telemetry # None
    /\ dash.telemetry.battery_level = None
    /\ dash.telemetry.distance_to_empty = Km(326)
    /\ dash.read.battery_range = None
    /\ dash.read.fuel_range = Some(326 * Thousandths)

\* C20 (as claimed): fuel_range is None whenever the telemetry has a distance
\* to empty and a battery level, whatever the electric endpoint reports
C20_NoneForHybrid ==
    ReadOf("Dashboard") /\ TelemetryOfHybrid => dash.read.fuel_range = None

\* the electric endpoint reports a fuel range with value and unit
HasFuelRange == dash.electric # None /\ HasUnitAndValue(dash.electric.fuel_range)

\* C20 (amended): with a distance to empty and a battery level in the
\* telemetry, fuel_range is the fuel range of the electric endpoint when that
\* has a value and a unit, and None when it has not
C20_NoFallbackForHybrid ==
    ReadOf("Dashboard") /\ TelemetryOfHybrid =>
        IF HasFuelRange
        THEN dash.read.fuel_range =
                Some(convert_distance(dash.distance_unit,
                                      dash.electric.fuel_range.unit.value,
                                      dash.electric.fuel_range.value.value))
        ELSE dash.read.fuel_range = None

\* a hybrid without a fuel range of the electric endpoint: no fuel range,
\* though the telemetry has a distance to empty
C20_Witness ==
    /\ ReadOf("Dashboard") /\ TelemetryOfHybrid /\ ~HasFuelRange
    /\ dash.electric # None
    /\ dash.telemetry.distance_to_empty = Km(326)
    /\ dash.read.fuel_range = None
    /\ dash.read.range = Some(326 * Thousandths)

\* ------------------------------------------------------------ lock status
\* the longest list of values a section is given
MaxValues == 2

\* StatusHelper.get_status: the status of the first value named `status`,
\* inverted (0 reads True, any other number False); None when the section,
\* its values or the named value's status is absent
get_status(section, status) ==
    IF section # None /\ section.values # None /\ section.values.value # <<>>
    THEN LET named == SelectSeq(section.values.value, LAMBDA item : item.value = status)
             item_status == IF named = <<>> THEN None ELSE named[1].status
         IN IF item_status = None THEN None ELSE Some(~(item_status.value # 0))
    ELSE None

\* (mutant) a door that is not known to be locked is reported unlocked
locked_guessed(door) ==
    Some(get_status(door.data, "carstatus_locked") = Some(TRUE))

\* Door.locked
locked(door) ==
    IF get_status(door.data, "carstatus_locked") = Some(TRUE) THEN Some(TRUE)
    ELSE IF get_status(door.data, "carstatus_unlocked") = Some(FALSE) THEN Some(FALSE)
    ELSE None

\* LockStatus.__init__: the object made of the status data, or of None
LockStatus(status) ==
    [class |-> "LockStatus", data |-> status,
     status |-> IF status # None THEN status.payload ELSE None]

\* Vehicle.lock_status
lock_status(v) ==
    LockStatus(IF "status" \in DOMAIN v.endpoint_data
               THEN v.endpoint_data["status"] ELSE None)

\* the doors' sections a status payload can hold, and the endpoint data of a
\* Vehicle before its update, without the status endpoint and with it
LockInputs ==
    LET items == [value : {"carstatus_locked", "carstatus_unlocked", "carstatus_closed"},
                  status : {None, Some(0), Some(1)}]
        lists == UNION {[1..n -> items] : n \in 0..MaxValues}
        sections == {None} \cup [section : {"carstatus_item_driver_door"},
                                 values : {None} \cup {Some(l) : l \in lists}]
        responses == {[payload |-> None], [payload |-> [vehicle_status |-> None]]}
    IN [call : {"made"}, class : {"Door"}, data : sections]
       \cup
       [call : {"made"}, class : {"Vehicle"},
        endpoint_data : {EmptyDict, [location |-> None]}
                        \cup {[status |-> r] : r \in responses}
                        \cup {[location |-> None, status |-> r] : r \in responses}]

\* the properties of a Door are read
ReadDoor ==
    /\ lock.call = "made" /\ lock.class = "Door"
    /\ lock' = [lock EXCEPT !.call = "read",
                            !.read = [closed |-> get_status(lock.data, "carstatus_closed"),
                                      locked |-> locked(lock)]]
    /\ UNCHANGED <<now, username, password, token_info, TOKEN_CACHE, pc, inst,
                   method, round, data, auth_code, headers, outcome, obs,
                   lastStored, vehicle, trips, dash, charging, web>>

\* the lock_status of a Vehicle is read
ReadLockStatus ==
    /\ lock.call = "made" /\ lock.class = "Vehicle"
    /\ lock' = [lock EXCEPT !.call = "read", !.read = lock_status(lock)]
    /\ UNCHANGED <<now, username, password, token_info, TOKEN_CACHE, pc, inst,
                   method, round, data, auth_code, headers, outcome, obs,
                   lastStored, vehicle, trips, dash, charging, web>>

InitLock ==
    /\ InitController
    /\ Idle(Domains \ {"lock"})
    /\ lock \in {l @@ [read |-> None] : l \in LockInputs}

NextLock == ReadDoor \/ ReadLockStatus

SpecLock == InitLock /\ [][NextLock]_vars

\* the first value of the door's section named k, if there is one
FlagOf(k) ==
    IF lock.data = None \/ lock.data.values = None THEN <<>>
    ELSE LET named == SelectSeq(lock.data.values.value, LAMBDA item : item.value = k)
         IN IF named = <<>> THEN <<>> ELSE <<named[1]>>

\* the flag named k is there with a status, and reads b (a status of 0 reads
\* true: the condition the flag names holds)
FlagReads(k, b) ==
    /\ FlagOf(k) # <<>>
    /\ FlagOf(k)[1].status # None
    /\ (FlagOf(k)[1].status.value = 0) = b

DoorRead == lock.call = "read" /\ lock.class = "Door"

\* C21: Door.locked is True exactly when the locked flag reads true, False
\* exactly when it does not and the unlocked flag reads false, and None in
\* every other case: always when the section, its values or both flags are
\* absent; a locked flag that reads true wins over the unlocked flag
C21_Locked ==
    DoorRead =>
        /\ lock.read.locked \in {Some(TRUE), Some(FALSE), None}
        /\ lock.read.locked = Some(TRUE) <=> FlagReads("carstatus_locked", TRUE)
        /\ lock.read.locked = Some(FALSE) <=>
              /\ ~FlagReads("carstatus_locked", TRUE)
              /\ FlagReads("carstatus_unlocked", FALSE)
        /\ FlagOf("carstatus_locked") = <<>> /\ FlagOf("carstatus_unlocked") = <<>>
              => lock.read.locked = None

\* a locked flag that reads true beside an unlocked flag that reads false
C21_Witness ==
    /\ DoorRead
    /\ FlagReads("carstatus_locked", TRUE)
    /\ FlagReads("carstatus_unlocked", FALSE)
    /\ lock.read.locked = Some(TRUE)

\* a section whose only flag is a closed flag: neither locked nor unlocked
C21_WitnessUnknown ==
    /\ DoorRead
    /\ lock.data # None /\ lock.data.values # None
    /\ Len(lock.data.values.value) = 1
    /\ FlagReads("carstatus_closed", TRUE)
    /\ lock.read.locked = None

\* C23: Vehicle.lock_status is None when no "status" data was fetched
C23_NoneWhenUnsupported ==
    lock.call = "read" /\ lock.class = "Vehicle"
    /\ "status" \notin DOMAIN lock.endpoint_data
        => lock.read = None

\* ------------------------------------------------------ next charging event
\* the days of the clock, from Monday 2024-01-22 on
NumRefDays == 7

\* a datetime of the local zone: the ordinal of its date and the seconds
\* since midnight
DateTime(ordinal, hour, minute, second) ==
    [ordinal |-> ordinal, second |-> hour * 3600 + minute * 60 + second]

\* a <= b on datetimes
NotAfter(a, b) ==
    a.ordinal < b.ordinal \/ (a.ordinal = b.ordinal /\ a.second <= b.second)

\* (mutant) an event whose time of today has passed stays today
deserialize_without_roll(v, ref) ==
    IF v = None THEN None
    ELSE IF v.weekDay = None \/ (v.startTime = None /\ v.endTime = None) THEN None
    ELSE LET event_time == IF v.endTime # None THEN v.endTime ELSE v.startTime
             days_ahead == ((v.weekDay.value - 1) - ((ref.ordinal + 6) % 7) + 7) % 7
         IN Some([event_type |-> v.type,
                  timestamp |-> DateTime(ref.ordinal + days_ahead,
                                         event_time.hour, event_time.minute, 0)])

\* ElectricStatusModel.deserialize_next_charging_event, ref being
\* datetime.now(timezone.utc).astimezone()
deserialize_next_charging_event(v, ref) ==
    IF v = None THEN None
    ELSE IF v.weekDay = None \/ (v.startTime = None /\ v.endTime = None) THEN None
    ELSE LET event_time == IF v.endTime # None THEN v.endTime ELSE v.startTime
             event_dt_today == DateTime(ref.ordinal, event_time.hour,
                                        event_time.minute, 0)
             days_ahead == ((v.weekDay.value - 1) - ((ref.ordinal + 6) % 7) + 7) % 7
             event_dt == [event_dt_today EXCEPT !.ordinal = @ + days_ahead]
         IN Some([event_type |-> v.type,
                  timestamp |-> IF NotAfter(event_dt, ref)
                                THEN [event_dt EXCEPT !.ordinal = @ + 7]
                                ELSE event_dt])

\* the raw events of the API (weekDay 1 is Monday) and the clock readings
ChargingInputs ==
    LET times == [hour : {0, 12, 23}, minute : {0, 59}]
        raw == [weekDay : {None} \cup {Some(w) : w \in 1..7},
                startTime : {None, [hour |-> 12, minute |-> 0],
                             [hour |-> 6, minute |-> 30]},
                endTime : {None} \cup times,
                type : {"CHARGE"}]
        refs == {DateTime(ToOrdinal(FirstDay) + d, t.hour, t.minute, sec) :
                    d \in 0..(NumRefDays - 1), t \in times, sec \in {0, 30}}
    IN [call : {"made"}, v : {None} \cup raw, ref : refs]

\* the validator runs on the raw event of a response
DeserializeNextChargingEvent ==
    /\ charging.call = "made"
    /\ charging' = [charging EXCEPT
          !.call = "validated",
          !.next_charging_event =
              deserialize_next_charging_event(charging.v, charging.ref)]
    /\ UNCHANGED <<now, username, password, token_info, TOKEN_CACHE, pc, inst,
                   method, round, data, auth_code, headers, outcome, obs,
                   lastStored, vehicle, trips, dash, lock, web>>

InitCharging ==
    /\ InitController
    /\ Idle(Domains \ {"charging"})
    /\ charging \in {c @@ [next_charging_event |-> None] : c \in ChargingInputs}

NextCharging == DeserializeNextChargingEvent

SpecCharging == InitCharging /\ [][NextCharging]_vars

\* the raw event has a weekday and at least one of the two times
Schedulable ==
    /\ charging.v # None /\ charging.v.weekDay # None
    /\ charging.v.startTime # None \/ charging.v.endTime # None

\* C22: the next charging event of a raw event with a weekday and a time has
\* the hour and minute of the end time when there is one and of the start
\* time otherwise, falls on the weekday asked for, is later than now and not
\* more than seven days later; without a weekday or without both times there
\* is no event
C22_NextEvent ==
    charging.call = "validated" =>
        IF Schedulable
        THEN /\ charging.next_charging_event # None
             /\ LET ts == charging.next_charging_event.value.timestamp
                    used == IF charging.v.endTime # None THEN charging.v.endTime
                            ELSE charging.v.startTime
                IN /\ ts.second = used.hour * 3600 + used.minute * 60
                   /\ (ts.ordinal + 6) % 7 = charging.v.weekDay.value - 1
                   /\ ~NotAfter(ts, charging.ref)
                   /\ NotAfter(ts, [charging.ref EXCEPT !.ordinal = @ + 7])
        ELSE charging.next_charging_event = None

\* today's weekday is asked for and the time has passed this very second:
\* the event is a week from now, to the second
C22_Witness ==
    /\ charging.call = "validated" /\ Schedulable
    /\ charging.v.endTime # None /\ charging.v.startTime # None
    /\ charging.v.endTime # charging.v.startTime
    /\ charging.next_charging_event # None
    /\ charging.next_charging_event.value.timestamp =
          [charging.ref EXCEPT !.ordinal = @ + 7]

\* ------------------------------------------------------------ demo web app
\* the session of one browser: a key that is not in the session reads None
NoSession ==
    [username |-> None, password |-> None, logged_in |-> None, vehicles |-> None]

\* before the first request; `authorized` records, for the claims, that a
\* login POST whose client.login() raised nothing was made and no /logout
\* since; `api` that the last request reached MyT
NewWeb ==
    [call |-> "made", session |-> NoSession, request |-> "none",
     response |-> "none", api |-> FALSE, authorized |-> FALSE]

\* what client.login(), get_vehicles() and the vehicle's calls can do
ApiOutcomes == {"ok", "ToyotaApiError: Authentication failed", "ToyotaApiError", "Exception"}

\* the first two tests of dashboard() and vehicle_details()
MayContactApi(session) ==
    /\ session.logged_in # None /\ session.logged_in.value
    /\ session.username # None /\ session.username.value # ""
    /\ session.password # None /\ session.password.value # ""

\* the frame of a request: all but the web app is left alone
Served(request, session, response, api, authorized) ==
    /\ web.call = "made"
    /\ web' = [web EXCEPT !.request = request, !.session = session,
                          !.response = response, !.api = api,
                          !.authorized = authorized]
    /\ UNCHANGED <<now, username, password, token_info, TOKEN_CACHE, pc, inst,
                   method, round, data, auth_code, headers, outcome, obs,
                   lastStored, vehicle, trips, dash, lock, charging>>

\* GET /
login_get ==
    Served("GET /", web.session, "login.html", FALSE, web.authorized)

\* POST / with a username and a password
login_post(form_username, form_password, result) ==
    IF result = "ok"
    THEN Served("POST /",
                [web.session EXCEPT !.username = Some(form_username),
                                    !.password = Some(form_password),
                                    !.logged_in = Some(TRUE)],
                "redirect dashboard", TRUE, TRUE)
    ELSE Served("POST /", web.session, "login.html", TRUE, web.authorized)

\* GET /dashboard
dashboard(result, raw_vehicles) ==
    IF ~MayContactApi(web.session)
    THEN Served("GET /dashboard", web.session, "redirect login", FALSE,
                web.authorized)
    ELSE IF result = "ok"
    THEN Served("GET /dashboard",
                [web.session EXCEPT !.vehicles = Some(raw_vehicles)],
                "dashboard.html", TRUE, web.authorized)
    ELSE IF result = "ToyotaApiError: Authentication failed"
    THEN Served("GET /dashboard", [web.session EXCEPT !.logged_in = None],
                "redirect login", TRUE, web.authorized)
    ELSE Served("GET /dashboard", web.session, "dashboard.html", TRUE,
                web.authorized)

\* (mutant) a logout that drops what test_logout looks at
logout_partly ==
    Served("GET /logout",
           [web.session EXCEPT !.username = None, !.logged_in = None],
           "redirect login", FALSE, FALSE)

\* GET /logout
logout ==
    Served("GET /logout", NoSession, "redirect login", FALSE, FALSE)

\* GET /vehicle/<vin>
vehicle_details(vin, result) ==
    IF ~MayContactApi(web.session)
    THEN Served("GET /vehicle", web.session, "redirect login", FALSE,
                web.authorized)
    ELSE IF result = "ToyotaApiError: Authentication failed"
    THEN Served("GET /vehicle", [web.session EXCEPT !.logged_in = None],
                "redirect login", TRUE, web.authorized)
    ELSE Served("GET /vehicle", web.session, "vehicle_details.html", TRUE,
                web.authorized)

InitWeb ==
    /\ InitController
    /\ Idle(Domains \ {"web"})
    /\ web = NewWeb

NextWeb ==
    \/ login_get
    \/ \E u \in {"alice", "bob", ""}, p \in {"pw", ""}, r \in ApiOutcomes :
          login_post(u, p, r)
    \/ \E r \in ApiOutcomes, vs \in {<<>>, <<"VIN1">>} : dashboard(r, vs)
    \/ logout
    \/ \E vin \in {"VIN1", "VIN2"}, r \in ApiOutcomes : vehicle_details(vin, r)

SpecWeb == InitWeb /\ [][NextWeb]_vars

Protected == web.request \in {"GET /dashboard", "GET /vehicle"}

\* C24: a protected page is rendered only after a login POST whose
\* client.login() raised nothing, with no /logout since; without one the
\* request for a protected page is redirected to the login page and the API
\* is not contacted; from a /logout to the next such login the session holds
\* none of username, password, logged_in, vehicles
C24_Protected ==
    /\ web.response \in {"dashboard.html", "vehicle_details.html"} => web.authorized
    /\ Protected /\ ~web.authorized =>
          web.response = "redirect login" /\ ~web.api
    /\ web.call = "made" /\ ~web.authorized => web.session = NoSession

\* the dashboard asked for from a session no login stands behind
C24_Witness ==
    /\ web.request = "GET /dashboard" /\ web.response = "redirect login"
    /\ ~web.authorized /\ ~web.api
    /\ web.session = NoSession

\* a vehicle page rendered from a session that holds the dashboard's vehicles
C24_WitnessRendered ==
    /\ web.response = "vehicle_details.html" /\ web.authorized
    /\ web.session.vehicles = Some(<<"VIN1">>)

\* the response is one month, or its first year holds several: the yearly
\* Summaries then are the years of the response
YearGroups == Len(trips.summary) = 1 \/ FirstYearHasMonths

\* C25 (as claimed, for responses whose Summaries are their years): the window
\* of a yearly Summary begins on the first day of the first month of its year
\* and ends on to_date for the last year, on 31 December for an earlier year
C25_Windows ==
    Folded("YEARLY") /\ YearGroups =>
        \A i \in 1..Len(trips.ret) :
            LET r == trips.ret[i]
                y == r.from_date.year
                ms == SortMonths(MonthsOf(y))
            IN /\ ms # <<>>
               /\ r.from_date = Date(y, ms[1].month, 1)
               /\ r.to_date = IF i = Len(trips.ret) THEN trips.to_date
                              ELSE Date(y, 12, 31)

\* the place of the first x in a sequence that holds it
FirstAt(q, x) == CHOOSE i \in 1..Len(q) : q[i] = x /\ \A j \in 1..(i - 1) : q[j] # x

\* C26: after a += b the countries of a are those it held, in their order,
\* followed once each by the countries of b it did not hold, in the order b
\* first names them; max_speed is the larger of the two; fuel_consumption is
\* the sum of the operands that are there, None when neither is; the additive
\* fields are the sums; and a += None leaves a and its countries as they were
C26_Merge ==
    Folded("ADD") =>
        LET a == trips.summary[1]
            b == trips.summary[2]
            r == trips.ret[1]
            ca == trips.lists[1]
            cb == trips.lists[2]
            rest == SubSeq(r.countries, Len(ca) + 1, Len(r.countries))
        IN IF b = None
           THEN r = Resolve(a, trips.lists) /\ trips.after = trips.lists
           ELSE /\ SubSeq(r.countries, 1, Len(ca)) = ca
                /\ Members(rest) = Members(cb) \ Members(ca)
                /\ \A i, j \in 1..Len(rest) :
                      i < j => /\ rest[i] # rest[j]
                               /\ FirstAt(cb, rest[i]) < FirstAt(cb, rest[j])
                /\ r.max_speed >= a.max_speed /\ r.max_speed >= b.max_speed
                /\ r.max_speed \in {a.max_speed, b.max_speed}
                /\ r.fuel_consumption =
                      IF a.fuel_consumption = None THEN b.fuel_consumption
                      ELSE IF b.fuel_consumption = None THEN a.fuel_consumption
                      ELSE Some(a.fuel_consumption.value + b.fuel_consumption.value)
                /\ \A f \in AdditiveFields : r[f] = a[f] + b[f]

\* b names a country twice that a does not hold, and has no fuel consumption
C26_Witness ==
    /\ Folded("ADD") /\ trips.summary[2] # None
    /\ trips.lists = << <<"DE">>, <<"NL", "NL", "DE">> >>
    /\ trips.ret[1].countries = <<"DE", "NL">>
    /\ trips.summary[2].fuel_consumption = None
    /\ trips.ret[1].fuel_consumption = Some(7)
    /\ trips.ret[1].max_speed = 130

\* a += None
C26_WitnessNone ==
    /\ Folded("ADD") /\ trips.summary[2] = None
    /\ trips.ret[1].countries = <<"FR", "DE">>

\* the field-wise sum, None neutral, of the HDC records of a sequence of
\* periods; None when no period has one
RECURSIVE SumHDC(_)
SumHDC(periods) ==
    IF periods = <<>> THEN None
    ELSE LET h == Head(periods).hdc
             rest == SumHDC(Tail(periods))
         IN IF h = None THEN rest
            ELSE IF rest = None THEN h
            ELSE [f \in HDCFields |-> add_with_none(h[f], rest[f])]

\* C27 (as claimed, for the weekly fold): the HDC record of a Summary is the
\* field-wise sum, None neutral, of the HDC records of the days of its window,
\* and so is there when one of these days has an HDC record
C27_HDCSum ==
    Folded("WEEKLY") =>
        \A i \in 1..Len(trips.ret) :
            LET r == trips.ret[i]
                days == SelectSeq(DaysOf, LAMBDA h :
                            /\ ToOrdinal(r.from_date) <= ToOrdinal(DateOf(h))
                            /\ ToOrdinal(DateOf(h)) <= ToOrdinal(r.to_date))
            IN r.hdc = SumHDC(days)

\* the awaits of _update_token: the refresh and the three steps of the
\* handshake
TokenWaits == {"refresh_wait", "authenticate_wait", "authorize_wait", "token_wait"}

\* a call that ended with an exception before it sent a request to the API
\* has stored no record
C28_State ==
    \A t \in Tasks :
        pc[t] = "done" /\ outcome[t] # "ok" /\ obs[t].api = 0 => obs[t].stored = 0

\* the step in which the token update of a call ends with an exception, and
\* the step in which its refresh does, store nothing; a step that changes a
\* Credential Record or the cache is Controller.__init__ or the store of a
\* call that goes on after it
C28_Step ==
    /\ \A t \in Tasks :
          /\ pc[t] \in TokenWaits /\ pc'[t] = "done" /\ outcome'[t] # "ok" =>
                UNCHANGED <<token_info, TOKEN_CACHE>>
          /\ obs'[t].refreshExc # obs[t].refreshExc
             /\ obs'[t].refreshExc \notin {"ok", "none"} =>
                UNCHANGED <<token_info, TOKEN_CACHE>>
    /\ token_info' # token_info \/ TOKEN_CACHE' # TOKEN_CACHE =>
          \/ \E c \in Ctrls : username[c] = NoUser /\ username'[c] # NoUser
          \/ \E t \in Tasks :
                /\ obs'[t].stored = obs[t].stored + 1
                /\ pc'[t] # "done" \/ outcome'[t] = "ok"

\* C28: a token operation that ends with an error stores nothing: with one
\* call at a time, the Credential Record and the cache entry are after the
\* failed call what they were before it
C28_FailureStoresNothing == []C28_State /\ [][C28_Step]_vars

\* an expired credential whose refresh and whose handshake both fail: the
\* expired record is still the controller's and the cache's
C28_Witness ==
    \E t \in Tasks :
        /\ pc[t] = "done" /\ outcome[t] = "LoginError"
        /\ obs[t].start = "Expired" /\ obs[t].refreshExc = "LoginError"
        /\ obs[t].authenticate = 1 /\ obs[t].stored = 0
        /\ token_info[inst[t]] # None
        /\ ~IsTokenValid(token_info[inst[t]], now)
        /\ TOKEN_CACHE[username[inst[t]]] = token_info[inst[t]]

\* a request of the call is at the API, with the headers it was given
Dispatched(t) == pc[t] = "request_wait"

\* every call that has sent a request to the API found its credential Valid
\* or stored one itself before; a request in flight carries a token and an
\* account identifier; a call that ended with an exception of its token
\* update has sent no request
C29_State ==
    \A t \in Tasks :
        /\ obs[t].api > 0 =>
              /\ obs[t].start \in {"Valid", "Expired", "Unauthenticated"}
              /\ obs[t].start = "Valid" \/ obs[t].stored = 1
        /\ Dispatched(t) =>
              /\ headers[t] # None
              /\ headers[t].authorization \in AccessTokens
              /\ headers[t].guid = "guid"
        /\ pc[t] = "done" /\ outcome[t] \notin {"ok", "ApiError"} => obs[t].api = 0

\* the step that sends a request: its headers are made of the controller's
\* Credential Record, and that is the record the account's last successful
\* authentication or refresh stored
C29_Step ==
    \A t \in Tasks :
        obs'[t].api = obs[t].api + 1 =>
            LET ti == token_info'[inst'[t]]
                u == username[inst'[t]]
            IN /\ ti # None
               /\ u \in DOMAIN lastStored' /\ ti = lastStored'[u]
               /\ headers'[t].authorization = ti.access_token
               /\ headers'[t].guid = ti.uuid

\* C29: in every interleaving of the calls of an update(), a request reaches
\* the API only after the token check of its call, with the access token and
\* the account identifier of a stored Credential Record, never without a
\* token; a call whose token update fails sends nothing
C29_NoRequestWithoutCredential == []C29_State /\ [][C29_Step]_vars

\* two calls of one update() that both authenticate and are both at the API,
\* with the tokens of two different records
C29_Witness ==
    /\ vehicle.update = "gathering"
    /\ \A t \in Tasks : Dispatched(t) /\ obs[t].start # "Valid" /\ obs[t].stored = 1
    /\ headers[1].authorization # headers[2].authorization

\* one call of an update() fails in its token update while the other is at
\* the API
C29_WitnessFailed ==
    /\ vehicle.update = "gathering"
    /\ \E t, u \in Tasks :
          /\ pc[t] = "done" /\ outcome[t] = "LoginError" /\ obs[t].api = 0
          /\ Dispatched(u)

\* C30: when the response holds only records of the range asked for, each
\* period once, the summary of the current day, week, month or year has at
\* most one Summary: the assertion holds, and the Summary returned is that
\* one, or None when there is none
C30_AssertionsHold ==
    Folded("CURRENT") =>
        /\ Len(trips.ret) < 2 /\ ~trips.raised
        /\ trips.result = IF trips.ret = <<>> THEN None ELSE Some(trips.ret[1].summary)
        /\ trips.ret = <<>> <=> Flatten(trips.summary) = <<>> /\
                                 (trips.frame \in {"day", "week"} \/ trips.summary = <<>>)

\* the current week on a Friday, with days of both months of the week
C30_Witness ==
    /\ Folded("CURRENT") /\ trips.frame = "week"
    /\ trips.today = Date(2024, 2, 2)
    /\ Len(trips.summary) = 2 /\ Len(Flatten(trips.summary)) = MaxDays
    /\ Len(trips.ret) = 1
    /\ trips.ret[1].from_date.month = 1 /\ trips.ret[1].to_date.month = 2

\* the current year in March, with the months of the year so far
C30_WitnessYear ==
    /\ Folded("CURRENT") /\ trips.frame = "year"
    /\ Len(trips.summary) = 3
    /\ Len(trips.ret) = 1
    /\ trips.ret[1].from_date = Date(2024, 1, 1)
    /\ trips.ret[1].to_date = Date(2024, 3, 10)
====
